---- MODULE Spec2Model ----
(***************************************************************************)
(* review-royale: review-session grouping, session scoring, the XP         *)
(* recalculation, and the sync of a repository next to the review webhook. *)
(*                                                                         *)
(* Times are whole seconds (chrono DateTime<Utc> / Duration, truncated to  *)
(* the second, which is the resolution of the timestamps GitHub serves).   *)
(* Option<T> is modelled by None / Some(v).                                *)
(*                                                                         *)
(* Spec        applies group_reviews_into_sessions to bounded lists of     *)
(*             reviews and commits (and to the PR 8754 fixture).           *)
(* SpecScore   groups the events of one session and applies                *)
(*             calculate_session_xp with a bounded prior commit time.      *)
(* SpecQuality does the same with calculate_session_xp_with_quality and    *)
(*             the aggregate of a bounded list of stored review comments.  *)
(* SpecRecalc  runs recalculate_all_xp over bounded reviews, commits and    *)
(*             review_comments tables, at most one statement failing.      *)
(* SpecSync    runs backfill_repo on one repository with two PRs, page by  *)
(*             page and PR by PR, while reviews are submitted on GitHub,   *)
(*             the clock advances and handle_review handles webhooks; at   *)
(*             most one call of the GitHub API or the database fails.      *)
(* SpecLevel   applies add_xp and the reset of the recalculation to one    *)
(*             user, and calculate_level to what xp_for_level returns.     *)
(* SpecFetch   runs the loop of fetch_prs_since page by page over every    *)
(*             newest-first listing of a few PRs and every cursor.         *)
(* SpecSched   runs the task of SyncService next to the backfill route,    *)
(*             with backfill_repo as a call that begins and later returns; *)
(*             its clock counts units of two seconds.                      *)
(* SpecAch     interleaves calls of check_reviewer and check_author, one   *)
(*             database statement per step.                                *)
(* SpecMetrics applies is_fast_review to a PR and reviews submitted from   *)
(*             0 seconds to some hours after it was created.               *)
(***************************************************************************)
EXTENDS Integers, Sequences, FiniteSets, TLC

VARIABLES
    reviews,          \* the reviews handed to the grouping; the reviews table
    commits,          \* the commits handed to the grouping; the commits table
    sessions,         \* what group_reviews_into_sessions returned
    call,             \* the last call of a score function and its result
    pc,               \* input -> grouped -> scored
    users,            \* the users table: user id -> xp, level, review_sessions
    xp_earned,        \* reviews.xp_earned: review id -> attributed xp
    review_comments,  \* the review_comments table
    recalcs,          \* the last two runs of recalculate_all_xp
    faulted,          \* a statement or a call has failed in this behaviour
    prs,              \* the pull_requests table: PR -> created_at, first_review_at
    last_synced_at,   \* repositories.last_synced_at of the one tracked repository
    syncs,            \* the calls of backfill_repo, the last one possibly running
    github,           \* what GitHub holds: PR -> created_at, updated_at, reviews
    webhooks,         \* review -> how often its webhook was delivered
    now,              \* the clock
    sched,            \* the task running SyncService::run
    achievements,     \* the user_achievements table
    checks            \* the calls of check_reviewer and check_author

storeVars == <<users, xp_earned, review_comments, recalcs, faulted>>

taskVars == <<sched, achievements, checks>>

syncVars == <<prs, last_synced_at, syncs, github, webhooks, now, taskVars>>

vars == <<reviews, commits, sessions, call, pc, storeVars, syncVars>>

-----------------------------------------------------------------------------
(* Option<T> *)

None == [some |-> FALSE]

Some(v) == [some |-> TRUE, value |-> v]

-----------------------------------------------------------------------------
(* Program constants *)

\* Duration::hours(24): the gap that starts a new session
SessionGapSecs == 86400

\* Duration::minutes(1): a zero-comment state change shorter than this is a rubber stamp
QuickApprovalSecs == 60

\* Duration::hours(1): the fast-review window
FastReviewSecs == 3600

BaseXp == 10

XpPerComment == 5

FastXp == 10

ThoroughXp == 5

ThoroughComments == 5

DeepXp == 10

DeepComments == 10

LowXp == 2

MediumXp == 5

HighXp == 8

LogicXp == 3

StructuralXp == 2

-----------------------------------------------------------------------------
(* Data model *)

ReviewState == {"Approved", "ChangesRequested", "Commented", "Dismissed", "Pending"}

\* The (PR, reviewer) pair whose events are grouped, and another PR whose
\* commits may be present in the commit list.
ThisPr == "pr-1"

OtherPr == "pr-2"

ThisReviewer == "reviewer-1"

Review(id, state, comments_count, submitted_at) ==
    [id |-> id, pr_id |-> ThisPr, reviewer_id |-> ThisReviewer, state |-> state,
     comments_count |-> comments_count, submitted_at |-> submitted_at]

Commit(pr_id, committed_at) == [pr_id |-> pr_id, committed_at |-> committed_at]

-----------------------------------------------------------------------------
(* Vec helpers *)

RECURSIVE SumSeq(_)
SumSeq(s) == IF s = <<>> THEN 0 ELSE Head(s) + SumSeq(Tail(s))

Map(s, field) == [i \in 1..Len(s) |-> s[i][field]]

Range(s) == {s[i] : i \in 1..Len(s)}

SetMin(S) == CHOOSE x \in S : \A y \in S : x <= y

SetMax(S) == CHOOSE x \in S : \A y \in S : x >= y

\* slice::sort_by_key is a stable sort: x goes after every element whose key
\* is less than or equal to its own.
RECURSIVE InsertByKey(_, _, _)
InsertByKey(sorted, x, field) ==
    IF sorted = <<>> THEN <<x>>
    ELSE IF Head(sorted)[field] <= x[field]
         THEN <<Head(sorted)>> \o InsertByKey(Tail(sorted), x, field)
         ELSE <<x>> \o sorted

RECURSIVE SortPrefix(_, _, _)
SortPrefix(s, n, field) ==
    IF n = 0 THEN <<>> ELSE InsertByKey(SortPrefix(s, n - 1, field), s[n], field)

UnsortedMutant(s, field) == s

sort_by_key(s, field) == SortPrefix(s, Len(s), field)

-----------------------------------------------------------------------------
(* sessions.rs: group_reviews_into_sessions *)

SumNotCountMutant(rs) == Len(rs)

total_comments_of(rs) == SumSeq(Map(rs, "comments_count"))

finalize_session(rs) ==
    IF rs = <<>> THEN None
    ELSE Some([pr_id |-> rs[1].pr_id,
               reviewer_id |-> rs[1].reviewer_id,
               reviews |-> rs,
               started_at |-> SetMin(Range(Map(rs, "submitted_at"))),
               ended_at |-> SetMax(Range(Map(rs, "submitted_at"))),
               total_comments |-> total_comments_of(rs)])

GapAtLeastMutant(time_gap) == time_gap >= SessionGapSecs

gap_exceeded(time_gap) == time_gap > SessionGapSecs

CommitsBetweenClosedMutant(sorted_commits, review, last_time) ==
    \E i \in 1..Len(sorted_commits) :
        /\ sorted_commits[i].pr_id = review.pr_id
        /\ sorted_commits[i].committed_at >= last_time
        /\ sorted_commits[i].committed_at < review.submitted_at

CommitsBetweenAnyPrMutant(sorted_commits, review, last_time) ==
    \E i \in 1..Len(sorted_commits) :
        /\ sorted_commits[i].committed_at > last_time
        /\ sorted_commits[i].committed_at < review.submitted_at

commits_between(sorted_commits, review, last_time) ==
    \E i \in 1..Len(sorted_commits) :
        /\ sorted_commits[i].pr_id = review.pr_id
        /\ sorted_commits[i].committed_at > last_time
        /\ sorted_commits[i].committed_at < review.submitted_at

should_start_new_session(review, last_review_time, sorted_commits) ==
    IF last_review_time.some
    THEN LET time_gap == review.submitted_at - last_review_time.value
         IN IF gap_exceeded(time_gap)
            THEN TRUE
            ELSE commits_between(sorted_commits, review, last_review_time.value)
    ELSE FALSE

\* The body of `for review in sorted_reviews`, from the i-th review on, and
\* the finalisation of the last open session after the loop.
RECURSIVE group_loop(_, _, _, _, _, _)
group_loop(sorted_reviews, sorted_commits, i, acc, current_session_reviews, last_review_time) ==
    IF i > Len(sorted_reviews)
    THEN LET last == finalize_session(current_session_reviews)
         IN IF current_session_reviews # <<>> /\ last.some
            THEN Append(acc, last.value)
            ELSE acc
    ELSE LET review == sorted_reviews[i]
             closing == /\ should_start_new_session(review, last_review_time, sorted_commits)
                        /\ current_session_reviews # <<>>
             closed == finalize_session(current_session_reviews)
             acc1 == IF closing /\ closed.some THEN Append(acc, closed.value) ELSE acc
             current1 == IF closing THEN <<>> ELSE current_session_reviews
         IN group_loop(sorted_reviews, sorted_commits, i + 1, acc1,
                       Append(current1, review), Some(review.submitted_at))

group_reviews_into_sessions(rs, cs) ==
    IF rs = <<>> THEN <<>>
    ELSE group_loop(sort_by_key(rs, "submitted_at"), sort_by_key(cs, "committed_at"),
                    1, <<>>, <<>>, None)

-----------------------------------------------------------------------------
(* sessions.rs: calculate_session_xp *)

has_state_change(session) ==
    \E i \in 1..Len(session.reviews) :
        \/ session.reviews[i].state = "Approved"
        \/ session.reviews[i].state = "ChangesRequested"

\* zero comments and no state change: rubber stamp, no credit
is_rubber_stamp(session) ==
    session.total_comments = 0 /\ ~has_state_change(session)

QuickApprovalInclusiveMutant(session) ==
    /\ has_state_change(session)
    /\ session.total_comments = 0
    /\ session.ended_at - session.started_at <= QuickApprovalSecs

\* zero comments, a state change, and under a minute from first to last event
is_quick_approval(session) ==
    /\ has_state_change(session)
    /\ session.total_comments = 0
    /\ session.ended_at - session.started_at < QuickApprovalSecs

FastInclusiveMutant(session, commit_before_session) ==
    IF commit_before_session.some
    THEN LET review_delay == session.started_at - commit_before_session.value
         IN IF review_delay <= FastReviewSecs /\ review_delay > 0 THEN FastXp ELSE 0
    ELSE 0

fast_review_xp(session, commit_before_session) ==
    IF commit_before_session.some
    THEN LET review_delay == session.started_at - commit_before_session.value
         IN IF review_delay < FastReviewSecs /\ review_delay > 0 THEN FastXp ELSE 0
    ELSE 0

ThoroughInclusiveMutant(session) ==
    IF session.total_comments >= ThoroughComments THEN ThoroughXp ELSE 0

thorough_xp(session) ==
    IF session.total_comments > ThoroughComments THEN ThoroughXp ELSE 0

deep_xp(session) ==
    IF session.total_comments > DeepComments THEN DeepXp ELSE 0

calculate_session_xp(session, commit_before_session) ==
    IF is_rubber_stamp(session) THEN 0
    ELSE IF is_quick_approval(session) THEN 0
    ELSE BaseXp
         + session.total_comments * XpPerComment
         + fast_review_xp(session, commit_before_session)
         + thorough_xp(session)
         + deep_xp(session)

-----------------------------------------------------------------------------
(* review_comments.rs: CommentQualityData and its aggregation query *)

CommentQualityData(by_tier, by_category, categorized_count) ==
    [by_tier |-> by_tier, by_category |-> by_category,
     categorized_count |-> categorized_count]

\* A stored review comment, as far as the aggregation reads it: category and
\* quality_score are both NULL until the comment is categorized.
ReviewComment(category, quality_score) ==
    [category |-> category, quality_score |-> quality_score]

\* COUNT(*) FILTER (WHERE ...) over the rows of one (pr_id, user_id)
get_quality_data_for_pr_user(cs) ==
    LET rows == 1..Len(cs)
        scored == {i \in rows : cs[i].quality_score.some}
        categorized == {i \in rows : cs[i].category.some}
        low == {i \in scored : cs[i].quality_score.value <= 3}
        medium == {i \in scored : cs[i].quality_score.value >= 4
                                    /\ cs[i].quality_score.value <= 6}
        high == {i \in scored : cs[i].quality_score.value >= 7}
        logic == {i \in categorized : cs[i].category.value = "logic"}
        structural == {i \in categorized : cs[i].category.value = "structural"}
        other == {i \in categorized : cs[i].category.value \notin {"logic", "structural"}}
    IN CommentQualityData(
           <<Cardinality(low), Cardinality(medium), Cardinality(high)>>,
           <<Cardinality(logic), Cardinality(structural), Cardinality(other)>>,
           Cardinality(categorized))

-----------------------------------------------------------------------------
(* Score Calculator with quality data: calculate_session_xp_with_quality *)

FlatCommentsWithQualityMutant(session, quality) ==
    session.total_comments * XpPerComment

\* The per-comment part of the score: the flat rate without quality data,
\* the tier weights, the flat rate for the still-uncategorized comments and
\* the category bonuses with it.
comment_xp(session, quality) ==
    IF quality.some
    THEN LET q == quality.value
         IN q.by_tier[1] * LowXp + q.by_tier[2] * MediumXp + q.by_tier[3] * HighXp
            + (session.total_comments - q.categorized_count) * XpPerComment
            + q.by_category[1] * LogicXp + q.by_category[2] * StructuralXp
    ELSE session.total_comments * XpPerComment

calculate_session_xp_with_quality(session, commit_before_session, quality) ==
    IF is_rubber_stamp(session) THEN 0
    ELSE IF is_quick_approval(session) THEN 0
    ELSE BaseXp
         + comment_xp(session, quality)
         + fast_review_xp(session, commit_before_session)
         + thorough_xp(session)
         + deep_xp(session)

-----------------------------------------------------------------------------
(* db/users.rs: the users table, keyed by user id *)

User(xp, level, review_sessions) ==
    [xp |-> xp, level |-> level, review_sessions |-> review_sessions]

RECURSIVE isqrt_from(_, _)
isqrt_from(n, x) == IF (n + 1) * (n + 1) > x THEN n ELSE isqrt_from(n + 1, x)

LevelNoOffsetMutant(xp) == isqrt_from(0, xp \div 100)

\* FLOOR(SQRT(xp / 100.0))::int + 1
level_for(xp) == isqrt_from(0, xp \div 100) + 1

\* INSERT ... VALUES (.., 0, 1, ..) ON CONFLICT (github_id) DO UPDATE SET
\* login, avatar_url, updated_at: an existing row keeps its xp and level.
upsert_user(us, user_id) ==
    IF user_id \in DOMAIN us THEN us
    ELSE [u \in DOMAIN us \cup {user_id} |-> IF u = user_id THEN User(0, 1, 0) ELSE us[u]]

AddXpOverwriteMutant(us, user_id, xp) ==
    IF user_id \in DOMAIN us
    THEN [us EXCEPT ![user_id].xp = xp, ![user_id].level = level_for(xp)]
    ELSE us

\* UPDATE users SET xp = xp + $2, level = FLOOR(SQRT((xp + $2) / 100.0))::int + 1
\* WHERE id = $1
add_xp(us, user_id, xp) ==
    IF user_id \in DOMAIN us
    THEN [us EXCEPT ![user_id].xp = @ + xp,
                    ![user_id].level = level_for(us[user_id].xp + xp)]
    ELSE us

-----------------------------------------------------------------------------
(* common/models.rs: calculate_level and xp_for_level *)

\* ((xp as f64 / 100.0).sqrt().floor() as i32) + 1, and 1 for xp <= 0
calculate_level(xp) ==
    IF xp <= 0 THEN 1 ELSE isqrt_from(0, xp \div 100) + 1

XpForLevelOffByOneMutant(level) ==
    IF level <= 1 THEN 0 ELSE level * level * 100

\* ((level - 1) as i64).pow(2) * 100, and 0 for level <= 1
xp_for_level(level) ==
    IF level <= 1 THEN 0 ELSE (level - 1) * (level - 1) * 100

-----------------------------------------------------------------------------
(* processor/sync.rs: the background sync service *)

\* The interval of the ticker and the delay between two repositories, in
\* units of the two seconds of that delay; the interval is scaled down from
\* the 10800 units of its default
Interval == 2

RepoDelay == 1

\* One call of backfill_repo as its caller sees it: `tick` is the tick of
\* the scheduler that made it, 0 for the backfill route
BackfillCall(caller, repo, tick, time) ==
    [caller |-> caller, repo |-> repo, tick |-> tick, started |-> time,
     ended |-> None, result |-> None]

\* The locals of SyncService::run and sync_all and where the task stands:
\* start (before the first tick), tick (awaiting ticker.tick()), list (about
\* to list the repositories), call (about to call backfill_repo for
\* repos[i]), await (inside that call, which is syncs[run]), pause (asleep
\* for retry_after), delay (asleep between two repositories)
SyncService(state, tick, deadline) ==
    [pc |-> state, tick |-> tick, deadline |-> deadline, repos |-> <<>>, i |-> 0,
     run |-> 0, wake |-> 0]

FirstTickSyncsMutant(s, time) ==
    [s EXCEPT !.pc = "list", !.tick = 1, !.deadline = time + Interval]

\* run: `let mut ticker = interval(..); ticker.tick().await;`: the first tick
\* completes at once and is not acted on
skip_first_tick(s, time) ==
    [s EXCEPT !.pc = "tick", !.deadline = time + Interval]

NotAwaitedMutant(run) == TRUE

\* sync_all: `backfiller.backfill_repo(..).await` has returned
awaited(run) == run.ended.some

OnErrorAbortMutant(s, result, time) ==
    IF result.some /\ result.value.kind = "Ok"
    THEN [s EXCEPT !.pc = "delay", !.wake = time + RepoDelay]
    ELSE [s EXCEPT !.pc = "tick"]

\* sync_all: the match on the result of backfill_repo
on_result(s, result, time) ==
    IF result.some /\ result.value.kind = "RateLimited"
    THEN [s EXCEPT !.pc = "pause", !.wake = time + result.value.retry_after]
    ELSE [s EXCEPT !.pc = "delay", !.wake = time + RepoDelay]

-----------------------------------------------------------------------------
(* recalculate.rs: recalculate_all_xp *)

\* One failing statement of a run; "none" is a run in which every statement
\* succeeds.
NoFault == [kind |-> "none"]

Fault(kind, at) == [kind |-> kind, at |-> at]

ResetUsersKeepMutant(us) == us

\* UPDATE users SET xp = 0, level = 1
reset_users(us) == [u \in DOMAIN us |-> [us[u] EXCEPT !.xp = 0, !.level = 1]]

\* UPDATE users SET review_sessions = 0
reset_review_sessions(us) == [u \in DOMAIN us |-> [us[u] EXCEPT !.review_sessions = 0]]

\* UPDATE reviews SET xp_earned = 0
reset_xp_earned(xe) == [r \in DOMAIN xe |-> 0]

\* The keys of the HashMap<(pr_id, reviewer_id), Vec<Review>>
review_groups(rs) == {<<rs[i].pr_id, rs[i].reviewer_id>> : i \in 1..Len(rs)}

\* The reviews of one key, in the order list_all returned them
group_of(rs, key) ==
    SelectSeq(rs, LAMBDA r : r.pr_id = key[1] /\ r.reviewer_id = key[2])

\* commits.iter().filter(|c| c.pr_id == pr_id)
pr_commits_of(cs, pr_id) == SelectSeq(cs, LAMBDA c : c.pr_id = pr_id)

CommitBeforeInclusiveMutant(pr_commits, session) ==
    LET earlier == {t \in {pr_commits[i].committed_at : i \in 1..Len(pr_commits)} :
                        t <= session.started_at}
    IN IF earlier = {} THEN None ELSE Some(SetMax(earlier))

\* pr_commits.iter().filter(|c| c.committed_at < session.started_at)
\*     .max_by_key(|c| c.committed_at).map(|c| c.committed_at)
commit_before_of(pr_commits, session) ==
    LET earlier == {t \in {pr_commits[i].committed_at : i \in 1..Len(pr_commits)} :
                        t < session.started_at}
    IN IF earlier = {} THEN None ELSE Some(SetMax(earlier))

\* The stored review comments of one (pr_id, user_id)
comments_of(rc, key) ==
    SelectSeq(rc, LAMBDA c : c.pr_id = key[1] /\ c.user_id = key[2])

\* get_quality_data_for_pr_user(..).await.ok(): None when the query fails
quality_data_of(rc, key, fault) ==
    IF fault = Fault("quality", key) THEN None
    ELSE Some(get_quality_data_for_pr_user(comments_of(rc, key)))

FirstReviewLastMutant(session) == session.reviews[Len(session.reviews)].id

\* session.reviews.first()
first_review_of(session) == session.reviews[1].id

\* One iteration of `for session in sessions`: the session's score and the
\* review that is to carry the score.
session_award(key, i, session, pr_commits, quality_data) ==
    [key |-> key,
     index |-> i,
     reviewer_id |-> key[2],
     session |-> session,
     first_review |-> first_review_of(session),
     xp |-> calculate_session_xp_with_quality(
                session, commit_before_of(pr_commits, session), quality_data)]

\* One iteration of `for ((pr_id, reviewer_id), pr_reviews) in review_groups`
group_awards(rs, cs, rc, key, fault) ==
    UNION {{session_award(key, i, group_sessions[i], pr_commits,
                          quality_data_of(rc, key, fault)) :
                i \in 1..Len(group_sessions)} :
           pr_commits \in {pr_commits_of(cs, key[1])},
           group_sessions \in {group_reviews_into_sessions(
                                   group_of(rs, key), pr_commits_of(cs, key[1]))}}

\* Every session of every group, scored
session_awards(rs, cs, rc, fault) ==
    UNION {group_awards(rs, cs, rc, key, fault) : key \in review_groups(rs)}

RECURSIVE SumXp(_)
SumXp(awards) ==
    IF awards = {} THEN 0
    ELSE LET a == CHOOSE a \in awards : TRUE
         IN a.xp + SumXp(awards \ {a})

\* if xp > 0 { .. }
awarded(awards) == {a \in awards : a.xp > 0}

\* let _ = db::users::add_xp(pool, reviewer_id, xp).await, once per awarded
\* session; the additions commute, so the HashMap's iteration order does not
\* show in the result.
RECURSIVE add_all_xp(_, _)
add_all_xp(us, awards) ==
    IF awards = {} THEN us
    ELSE LET a == CHOOSE a \in awards : TRUE
         IN add_all_xp(add_xp(us, a.reviewer_id, a.xp), awards \ {a})

\* let _ = UPDATE reviews SET xp_earned = $1 WHERE id = $2, once per awarded
\* session; the sessions of a run have pairwise different first reviews.
set_all_xp_earned(xe, awards) ==
    [r \in DOMAIN xe |->
        IF \E a \in awards : a.first_review = r
        THEN (CHOOSE a \in awards : a.first_review = r).xp
        ELSE xe[r]]

\* user_session_counts, and UPDATE users SET review_sessions = $1 WHERE id = $2
set_review_sessions(us, awards) ==
    [u \in DOMAIN us |->
        IF \E a \in awards : a.reviewer_id = u
        THEN [us[u] EXCEPT !.review_sessions =
                               Cardinality({a \in awards : a.reviewer_id = u})]
        ELSE us[u]]

RecalculationStats(total_reviews, total_sessions, total_xp_awarded, users_updated) ==
    [total_reviews |-> total_reviews, total_sessions |-> total_sessions,
     total_xp_awarded |-> total_xp_awarded, users_updated |-> users_updated]

\* The whole of recalculate_all_xp on the persisted tables: the tables it
\* leaves behind and what it returns, where `all` is session_awards of the
\* tables it read. A failing statement behind `?` ends the run with Err at
\* that point; a failing statement behind `let _ =` is skipped.
recalculate_all_xp(us, xe, rs, all, fault) ==
    IF fault.kind = "reset_users"
    THEN [users |-> us, xp_earned |-> xe, result |-> "Err", stats |-> None]
    ELSE
    LET us1 == reset_users(us)
        us2 == IF fault.kind = "review_sessions" THEN us1 ELSE reset_review_sessions(us1)
        xe1 == IF fault.kind = "reset_xp_earned" THEN xe ELSE reset_xp_earned(xe)
    IN IF fault.kind = "list_all"
       THEN [users |-> us2, xp_earned |-> xe1, result |-> "Err", stats |-> None]
       ELSE
       LET won == awarded(all)
           added == {a \in won : fault # Fault("add_xp", <<a.key, a.index>>)}
           marked == {a \in won : fault # Fault("set_xp_earned", <<a.key, a.index>>)}
           us3 == add_all_xp(us2, added)
           us4 == IF fault.kind = "review_sessions" THEN us3
                  ELSE set_review_sessions(us3, all)
       IN [users |-> us4,
           xp_earned |-> set_all_xp_earned(xe1, marked),
           result |-> "Ok",
           stats |-> Some(RecalculationStats(
                         Len(rs), Cardinality(all), SumXp(won),
                         Cardinality({a.reviewer_id : a \in won})))]

-----------------------------------------------------------------------------
(* github/client.rs: what the GitHub API serves *)

\* GithubPr, as far as the sync reads it
GithubPr(number, created_at, updated_at) ==
    [number |-> number, created_at |-> created_at, updated_at |-> updated_at]

\* GithubReview; `comments` is the number of review comments whose
\* pull_request_review_id is this review
GithubReview(id, user, state, submitted_at, comments) ==
    [id |-> id, user |-> user, state |-> state, submitted_at |-> submitted_at,
     comments |-> comments]

\* GET /pulls?state=all&sort=updated&direction=desc, all pages: the PRs by
\* descending updated_at, PRs of equal updated_at by descending number
RECURSIVE InsertByUpdated(_, _)
InsertByUpdated(sorted, pr) ==
    IF sorted = <<>> THEN <<pr>>
    ELSE IF Head(sorted).updated_at >= pr.updated_at
         THEN <<Head(sorted)>> \o InsertByUpdated(Tail(sorted), pr)
         ELSE <<pr>> \o sorted

RECURSIVE listing_of(_, _)
listing_of(gh, numbers) ==
    IF numbers = <<>> THEN <<>>
    ELSE InsertByUpdated(
             listing_of(gh, Tail(numbers)),
             GithubPr(Head(numbers), gh[Head(numbers)].created_at,
                      gh[Head(numbers)].updated_at))

\* list_prs(owner, repo, "all", page, per_page)
list_prs(listing, page, per_page) ==
    SubSeq(listing, (page - 1) * per_page + 1,
           IF page * per_page < Len(listing) THEN page * per_page ELSE Len(listing))

CutoffMaxMutant(since, time, max_age_days) ==
    IF since.some /\ since.value >= time - max_age_days * 86400
    THEN since.value ELSE time - max_age_days * 86400

\* fetch_prs_since: let cutoff = since.unwrap_or_else(|| Utc::now() - days(max_age_days))
cutoff_of(since, time, max_age_days) ==
    IF since.some THEN since.value ELSE time - max_age_days * 86400

PushedStrictMutant(page_prs, cutoff) ==
    LET Newer(pr) == pr.updated_at > cutoff IN SelectSeq(page_prs, Newer)

\* fetch_prs_since: `for pr in prs { if pr.updated_at >= cutoff { push } else
\* { should_stop = true; break } }`: the PRs of a page that are pushed
RECURSIVE pushed_of(_, _)
pushed_of(page_prs, cutoff) ==
    IF page_prs = <<>> THEN <<>>
    ELSE IF Head(page_prs).updated_at >= cutoff
         THEN <<Head(page_prs)>> \o pushed_of(Tail(page_prs), cutoff)
         ELSE <<>>

\* fetch_prs_since: should_stop, or the oldest PR of the page is older than
\* the cutoff
page_is_last(page_prs, cutoff) ==
    \/ Len(pushed_of(page_prs, cutoff)) < Len(page_prs)
    \/ \E i \in 1..Len(page_prs) : page_prs[i].updated_at < cutoff

-----------------------------------------------------------------------------
(* metrics.rs, scores.rs: the XP of one review on the sync and webhook paths *)

\* diff < Duration::hours(4)
is_fast_review(pr_created, review_submitted) ==
    review_submitted - pr_created < 4 * 3600

is_first_review(pr, review_submitted) ==
    IF pr.first_review_at.some THEN pr.first_review_at.value = review_submitted ELSE TRUE

calculate_review_xp(pr, review_submitted, comments_count) ==
    10
    + (IF is_first_review(pr, review_submitted) THEN 15 ELSE 0)
    + (IF is_fast_review(pr.created_at, review_submitted) THEN 10 ELSE 0)
    + (IF comments_count * 5 < 50 THEN comments_count * 5 ELSE 50)

-----------------------------------------------------------------------------
(* db/prs.rs, db/reviews.rs: the pull_requests and reviews tables *)

PullRequest(id, created_at, first_review_at) ==
    [id |-> id, created_at |-> created_at, first_review_at |-> first_review_at]

\* INSERT ... ON CONFLICT (github_id) DO UPDATE SET title, state: an existing
\* row keeps its created_at and first_review_at
upsert_pr(table, number, created_at) ==
    IF number \in DOMAIN table THEN table
    ELSE [p \in DOMAIN table \cup {number} |->
             IF p = number THEN PullRequest(number, created_at, None) ELSE table[p]]

SetFirstReviewOverwriteMutant(table, pr_id, first_review_at) ==
    IF pr_id \in DOMAIN table
    THEN [table EXCEPT ![pr_id].first_review_at = Some(first_review_at)]
    ELSE table

\* UPDATE pull_requests SET first_review_at = $2
\* WHERE id = $1 AND first_review_at IS NULL
set_first_review(table, pr_id, first_review_at) ==
    IF pr_id \in DOMAIN table /\ ~table[pr_id].first_review_at.some
    THEN [table EXCEPT ![pr_id].first_review_at = Some(first_review_at)]
    ELSE table

\* review.state.to_lowercase() matched against the four known states
parse_state(state) ==
    CASE state \in {"APPROVED", "approved"} -> "Approved"
      [] state \in {"CHANGES_REQUESTED", "changes_requested"} -> "ChangesRequested"
      [] state \in {"COMMENTED", "commented"} -> "Commented"
      [] state \in {"DISMISSED", "dismissed"} -> "Dismissed"
      [] OTHER -> "Pending"

StoredReview(id, pr_id, reviewer_id, github_id, state, comments_count, submitted_at) ==
    [id |-> id, pr_id |-> pr_id, reviewer_id |-> reviewer_id, github_id |-> github_id,
     state |-> state, comments_count |-> comments_count, submitted_at |-> submitted_at]

\* The row a github_id is stored in, 0 when there is none
row_of(table, github_id) ==
    IF \E i \in 1..Len(table) : table[i].github_id = github_id
    THEN CHOOSE i \in 1..Len(table) : table[i].github_id = github_id
    ELSE 0

\* INSERT INTO reviews ... ON CONFLICT (github_id) DO UPDATE SET state, body,
\* comments_count: the statement succeeds whether or not the row existed
insert_review(table, pr_id, reviewer_id, github_id, state, comments_count, submitted_at) ==
    IF row_of(table, github_id) = 0
    THEN Append(table, StoredReview(Len(table) + 1, pr_id, reviewer_id, github_id,
                                    state, comments_count, submitted_at))
    ELSE [table EXCEPT ![row_of(table, github_id)].state = state,
                       ![row_of(table, github_id)].comments_count = comments_count]

\* SELECT ... FROM reviews ORDER BY submitted_at ASC
list_all(table) == sort_by_key(table, "submitted_at")

\* reviews.xp_earned of a new row
with_new_rows(xe, table) == [r \in 1..Len(table) |-> IF r \in DOMAIN xe THEN xe[r] ELSE 0]

-----------------------------------------------------------------------------
(* db/achievements.rs, achievements.rs: the user_achievements table and the
   achievement checker *)

UserAchievement(user_id, achievement_id, unlocked_at) ==
    [user_id |-> user_id, achievement_id |-> achievement_id, unlocked_at |-> unlocked_at]

\* SELECT EXISTS(SELECT 1 FROM user_achievements WHERE user_id = $1 AND
\* achievement_id = $2)
has_achievement(table, user_id, achievement_id) ==
    \E i \in 1..Len(table) :
        table[i].user_id = user_id /\ table[i].achievement_id = achievement_id

UnlockOverwriteMutant(table, user_id, achievement_id, time) ==
    IF has_achievement(table, user_id, achievement_id)
    THEN [i \in 1..Len(table) |->
             IF table[i].user_id = user_id /\ table[i].achievement_id = achievement_id
             THEN UserAchievement(user_id, achievement_id, time)
             ELSE table[i]]
    ELSE Append(table, UserAchievement(user_id, achievement_id, time))

\* INSERT INTO user_achievements .. VALUES ($1, $2, NOW()) ON CONFLICT
\* (user_id, achievement_id) DO UPDATE SET unlocked_at =
\* user_achievements.unlocked_at
unlock(table, user_id, achievement_id, time) ==
    IF has_achievement(table, user_id, achievement_id) THEN table
    ELSE Append(table, UserAchievement(user_id, achievement_id, time))

\* check_reviewer: the achievements whose condition holds, in the order the
\* function tries them
reviewer_candidates(count, fast_count, has_streak) ==
    (IF count = 1 THEN <<"first_review">> ELSE <<>>)
    \o (IF count >= 10 THEN <<"review_10">> ELSE <<>>)
    \o (IF count >= 50 THEN <<"review_50">> ELSE <<>>)
    \o (IF count >= 100 THEN <<"review_100">> ELSE <<>>)
    \o (IF fast_count >= 10 THEN <<"speed_demon">> ELSE <<>>)
    \o (IF has_streak THEN <<"review_streak_7">> ELSE <<>>)

\* check_author: likewise
author_candidates(pr_count, merged_count) ==
    (IF pr_count = 1 THEN <<"first_pr">> ELSE <<>>)
    \o (IF merged_count >= 10 THEN <<"pr_merged_10">> ELSE <<>>)

\* try_unlock for each candidate in turn, no other call in between: the
\* table it leaves
RECURSIVE try_unlock_each(_, _, _, _)
try_unlock_each(table, user_id, candidates, time) ==
    IF candidates = <<>> THEN table
    ELSE try_unlock_each(
             IF has_achievement(table, user_id, Head(candidates)) THEN table
             ELSE unlock(table, user_id, Head(candidates), time),
             user_id, Tail(candidates), time)

\* SELECT COUNT(*) FROM reviews WHERE reviewer_id = $1 AND submitted_at >= $2
count_by_user(table, user_id, since) ==
    Cardinality({i \in 1..Len(table) :
                     table[i].reviewer_id = user_id /\ table[i].submitted_at >= since})

\* count_fast_reviews: the reviews of the user submitted at most an hour
\* after the latest earlier commit of their PR
count_fast_reviews(table, cs, user_id) ==
    Cardinality({i \in 1..Len(table) :
        /\ table[i].reviewer_id = user_id
        /\ \E c \in 1..Len(cs) :
               /\ cs[c].pr_id = table[i].pr_id
               /\ cs[c].committed_at < table[i].submitted_at
               /\ \A d \in 1..Len(cs) :
                      (cs[d].pr_id = table[i].pr_id
                       /\ cs[d].committed_at < table[i].submitted_at)
                          => cs[d].committed_at <= cs[c].committed_at
               /\ table[i].submitted_at <= cs[c].committed_at + 3600})

\* has_7_day_streak: the user has reviews on seven consecutive days
has_7_day_streak(table, user_id) ==
    \E i \in 1..Len(table) :
        /\ table[i].reviewer_id = user_id
        /\ \A k \in 0..6 :
               \E j \in 1..Len(table) :
                   /\ table[j].reviewer_id = user_id
                   /\ table[j].submitted_at \div 86400
                          = table[i].submitted_at \div 86400 + k

\* check_reviewer(user_id) as one step: the table it leaves
check_reviewer(ach, table, cs, user_id, time) ==
    try_unlock_each(
        ach, user_id,
        reviewer_candidates(count_by_user(table, user_id, time - 3650 * 86400),
                            count_fast_reviews(table, cs, user_id),
                            has_7_day_streak(table, user_id)),
        time)

-----------------------------------------------------------------------------
(* backfill.rs: Backfiller::backfill_repo and Backfiller::process_pr *)

BackfillProgress(prs_processed, prs_total, reviews_processed, users_created) ==
    [prs_processed |-> prs_processed, prs_total |-> prs_total,
     reviews_processed |-> reviews_processed, users_created |-> users_created]

\* What backfill_repo returns: Ok(progress), Err(RateLimited(retry_after)),
\* Err(GitHub(cause)) or Err(Database); `cause` is the ClientError inside
\* GitHub(..) and retry_after the value it carries.
Returned(kind, cause, retry_after) ==
    [kind |-> kind, cause |-> cause, retry_after |-> retry_after]

\* The locals of one call of backfill_repo and where it stands:
\* fetch (inside fetch_prs_since, about to get `page`), process (about to
\* call process_pr on all_prs[next]), store (inside process_pr, reviews and
\* comments fetched), done (returned). `updated` and `failed` are not
\* locals: they record the PRs that were updated on GitHub while the call
\* ran, and the positions in all_prs of the PRs in whose processing a call
\* failed without a rate-limit signal.
SyncRun(force, at, last_synced, cutoff, sync_start, result) ==
    [force |-> force, pc |-> at, last_synced |-> last_synced, cutoff |-> cutoff,
     sync_start |-> sync_start, page |-> 1, all_prs |-> <<>>, next |-> 1,
     db_pr |-> None, fetched |-> <<>>, comments_fetched |-> TRUE, new_users |-> 0,
     progress |-> BackfillProgress(0, 0, 0, 0), updated |-> {},
     failed |-> {}, result |-> result]

ForceKeepsCursorMutant(force, cursor) == cursor

\* backfill_repo: `let last_synced = if force { None } else { get_last_synced_at(..)? }`
last_synced_of(force, cursor) == IF force THEN None ELSE cursor

CursorAtCompletionMutant(run, time) == Some(time)

\* db::repos::set_last_synced_at(&self.pool, repo.id, sync_start)
new_cursor(run, time) == run.sync_start

\* process_pr: the body of `for review in reviews`, from the i-th fetched
\* review on. acc holds the users and reviews tables, reviews_count,
\* new_users and first_review_at.
RECURSIVE store_reviews(_, _, _, _, _)
store_reviews(acc, fetched, i, db_pr, comments_fetched) ==
    IF i > Len(fetched) THEN acc
    ELSE IF ~fetched[i].user.some \/ ~fetched[i].submitted_at.some
    THEN store_reviews(acc, fetched, i + 1, db_pr, comments_fetched)
    ELSE LET reviewer == fetched[i].user.value
             submitted_at == fetched[i].submitted_at.value
             comments_count == IF comments_fetched THEN fetched[i].comments ELSE 0
             xp == calculate_review_xp(db_pr, submitted_at, comments_count)
         IN store_reviews(
                [users |-> add_xp(upsert_user(acc.users, reviewer), reviewer, xp),
                 reviews |-> insert_review(acc.reviews, db_pr.id, reviewer, fetched[i].id,
                                           parse_state(fetched[i].state), comments_count,
                                           submitted_at),
                 reviews_count |-> acc.reviews_count + 1,
                 new_users |-> acc.new_users + (IF reviewer \in DOMAIN acc.users THEN 0 ELSE 1),
                 first_review_at |->
                     IF ~acc.first_review_at.some \/ submitted_at < acc.first_review_at.value
                     THEN Some(submitted_at)
                     ELSE acc.first_review_at],
                fetched, i + 1, db_pr, comments_fetched)

\* process_pr: `if let Some(first_at) = first_review_at { if
\* db_pr.first_review_at.is_none() { let _ = set_first_review(..) } }`
record_first_review(table, db_pr, first_review_at) ==
    IF first_review_at.some /\ ~db_pr.first_review_at.some
    THEN set_first_review(table, db_pr.id, first_review_at.value)
    ELSE table

-----------------------------------------------------------------------------
(* Bounded inputs *)

\* Longest review list and commit list handed to group_reviews_into_sessions
MaxReviews == 3

MaxCommits == 2

\* Longest review list of a session scored without quality data
MaxScoreReviews == 2

\* Longest review list of a session scored with quality data, and the most
\* stored review comments behind that data
MaxQualityReviews == 2

MaxComments == 2

SeqsUpTo(S, n) == UNION {[1..k -> S] : k \in 0..n}

\* Review ids are the positions in the input list: every event is distinct.
WithIds(shapes) ==
    [i \in 1..Len(shapes) |->
        Review(i, shapes[i].state, shapes[i].comments_count, shapes[i].submitted_at)]

\* Event times around the session rules: 0 -> 10 leaves room for a commit in
\* between, 10 -> 86410 is exactly 24h, 0 -> 86410 and 86410 -> 172811 are
\* more than 24h.
GroupTimes == {0, 10, 86410, 172811}

\* A comment-less approval at each of the times, a two-comment review at the
\* first two.
GroupShapes ==
    {[state |-> "Approved", comments_count |-> 0, submitted_at |-> t] : t \in GroupTimes}
    \cup {[state |-> "Commented", comments_count |-> 2, submitted_at |-> t] : t \in {0, 10}}

\* Commits of the PR before, at, between and after the event times, and a
\* commit of another PR.
GroupCommits ==
    {Commit(ThisPr, t) : t \in {5, 10, 20}} \cup {Commit(OtherPr, 5)}

\* test_jimmy_pr8754_real_data: 18 one-comment events and 3 commits, in
\* seconds since 2026-02-05T00:00:00Z.
Pr8754Reviews ==
    LET ts == <<369986, 370188, 370362, 370526, 370623, 384380, 384882, 385640,
                385675, 386682, 387149, 387257, 387691, 392135, 427112, 427464,
                433964, 445680>>
    IN [i \in 1..Len(ts) |-> Review(i, "Commented", 1, ts[i])]

Pr8754Commits ==
    <<Commit(ThisPr, 10060), Commit(ThisPr, 444792), Commit(ThisPr, 444880)>>

\* Events of one session: 0, 30 and 60 seconds apart.
ScoreTimes == {3600, 3630, 3660}

ScoreKinds ==
    {<<s, 0>> : s \in ReviewState} \cup {<<"Commented", 5>>, <<"ChangesRequested", 6>>}

ScoreShapes ==
    {[state |-> k[1], comments_count |-> k[2], submitted_at |-> t] :
        k \in ScoreKinds, t \in ScoreTimes}

\* The single-event sessions of the scoring tests (3, 5, 6, 7, 8 and 12 comments).
FixtureSessions ==
    {<<Review(1, "Approved", 3, 3600)>>} \cup
    {<<Review(1, "ChangesRequested", n, 3600)>> : n \in {3, 5, 6, 7, 8, 12}}

ScoreInputs ==
    {WithIds(rs) : rs \in SeqsUpTo(ScoreShapes, MaxScoreReviews)} \cup FixtureSessions

\* Events of one session scored with quality data: 0 or 60 seconds apart.
QualityShapes ==
    {[state |-> k[1], comments_count |-> k[2], submitted_at |-> t] :
        k \in {<<"Approved", 0>>, <<"Commented", 0>>, <<"Commented", 5>>,
               <<"ChangesRequested", 6>>},
        t \in {3600, 3660}}

QualitySessionInputs ==
    {WithIds(rs) : rs \in SeqsUpTo(QualityShapes, MaxQualityReviews)} \cup FixtureSessions

\* Prior commit times: 3600 s, 3599 s and -30 s away from an event at 3600,
\* 0 s away from an event at 3630, 30 s away from an event at 3660.
CommitBeforeInputs == {None} \cup {Some(t) : t \in {0, 1, 3630}}

\* Stored comments: uncategorized, or categorized with a score at a tier edge.
CommentShapes ==
    {ReviewComment(None, None)} \cup
    {ReviewComment(Some(c), Some(q)) :
        c \in {"logic", "structural", "nit"}, q \in {3, 4, 7}}

\* The aggregates of the scoring tests.
FixtureQuality ==
    {CommentQualityData(<<0, 0, 5>>, <<2, 1, 2>>, 5),
     CommentQualityData(<<2, 3, 3>>, <<1, 0, 7>>, 8),
     CommentQualityData(<<3, 0, 0>>, <<0, 0, 3>>, 3),
     CommentQualityData(<<1, 2, 1>>, <<1, 0, 3>>, 4)}

QualityInputs ==
    {None}
    \cup {Some(get_quality_data_for_pr_user(cs)) : cs \in SeqsUpTo(CommentShapes, MaxComments)}
    \cup {Some(q) : q \in FixtureQuality}

\* Longest reviews table handed to recalculate_all_xp
MaxRecalcReviews == 2

UserIds == {"reviewer-1", "reviewer-2"}

\* The (pr_id, reviewer_id) pairs of the stored reviews: one reviewer on two
\* PRs and two reviewers on one PR.
RecalcKeys == {<<"pr-1", "reviewer-1">>, <<"pr-1", "reviewer-2">>, <<"pr-2", "reviewer-1">>}

\* The first stored review is submitted at 7200 s, each later one RecalcGaps
\* after the one before: within a session, or a day and more later.
RecalcGaps == {30, 90000}

RecalcShapes ==
    {[state |-> k[1], comments_count |-> k[2], key |-> key, gap |-> g] :
        k \in {<<"Approved", 0>>, <<"Commented", 2>>}, key \in RecalcKeys, g \in RecalcGaps}

RECURSIVE RecalcTime(_, _)
RecalcTime(shapes, i) ==
    IF i = 1 THEN 7200 ELSE RecalcTime(shapes, i - 1) + shapes[i].gap

\* The rows of the reviews table in the order of list_all (submitted_at ASC)
RecalcReviews(shapes) ==
    [i \in 1..Len(shapes) |->
        [id |-> i, pr_id |-> shapes[i].key[1], reviewer_id |-> shapes[i].key[2],
         state |-> shapes[i].state, comments_count |-> shapes[i].comments_count,
         submitted_at |-> RecalcTime(shapes, i)]]

StoredComment(pr_id, user_id, category, quality_score) ==
    [pr_id |-> pr_id, user_id |-> user_id, category |-> category,
     quality_score |-> quality_score]

\* The commits and review_comments tables next to the reviews: both empty;
\* a commit 2200 s before the first review and one high-quality logic
\* comment; a commit between the first review and one 30 s after it and
\* four low-quality nits; three commits of pr-1, the last at the time of the
\* first review; an early commit of pr-1 and a later one of pr-2.
RecalcTables ==
    {<<<<>>, <<>>>>,
     <<<<Commit("pr-1", 1000), Commit("pr-1", 5000), Commit("pr-1", 7200)>>, <<>>>>,
     <<<<Commit("pr-2", 5000), Commit("pr-1", 3000)>>, <<>>>>,
     <<<<Commit("pr-1", 5000)>>,
       <<StoredComment("pr-1", "reviewer-1", Some("logic"), Some(8))>>>>,
     <<<<Commit("pr-1", 7210)>>,
       [i \in 1..4 |-> StoredComment("pr-1", "reviewer-1", Some("nit"), Some(2))]>>}

-----------------------------------------------------------------------------
(* State machine *)

NoCall == [fn |-> "none"]

\* No repository is tracked and no sync runs.
\* No scheduler task, no achievement unlocked, no check called
NoTasks ==
    /\ sched = [pc |-> "off"]
    /\ achievements = <<>>
    /\ checks = <<>>

NoSync ==
    /\ prs = <<>>
    /\ last_synced_at = None
    /\ syncs = <<>>
    /\ github = <<>>
    /\ webhooks = <<>>
    /\ now = 0
    /\ NoTasks

\* The grouping and the score functions touch no table.
NoStore ==
    /\ users = <<>>
    /\ xp_earned = <<>>
    /\ review_comments = <<>>
    /\ recalcs = <<>>
    /\ faulted = FALSE
    /\ NoSync

\* The arguments of one call of group_reviews_into_sessions
Init ==
    /\ \/ \E rs \in SeqsUpTo(GroupShapes, MaxReviews), cs \in SeqsUpTo(GroupCommits, MaxCommits) :
             reviews = WithIds(rs) /\ commits = cs
       \/ reviews = Pr8754Reviews /\ commits = Pr8754Commits
    /\ sessions = <<>>
    /\ call = NoCall
    /\ pc = "input"
    /\ NoStore

\* The events of one session, to be grouped and then scored
InitScore ==
    /\ reviews \in ScoreInputs
    /\ commits = <<>>
    /\ sessions = <<>>
    /\ call = NoCall
    /\ pc = "input"
    /\ NoStore

\* The events of one session, to be grouped and then scored with quality data
InitQuality ==
    /\ reviews \in QualitySessionInputs
    /\ commits = <<>>
    /\ sessions = <<>>
    /\ call = NoCall
    /\ pc = "input"
    /\ NoStore

GroupReviewsIntoSessions ==
    /\ pc = "input"
    /\ sessions' = group_reviews_into_sessions(reviews, commits)
    /\ pc' = "grouped"
    /\ UNCHANGED <<reviews, commits, call, storeVars, syncVars>>

CalculateSessionXp ==
    /\ pc = "grouped"
    /\ \E i \in 1..Len(sessions), cb \in CommitBeforeInputs :
           call' = [fn |-> "calculate_session_xp",
                    session |-> sessions[i],
                    commit_before |-> cb,
                    quality |-> None,
                    xp |-> calculate_session_xp(sessions[i], cb)]
    /\ pc' = "scored"
    /\ UNCHANGED <<reviews, commits, sessions, storeVars, syncVars>>

CalculateSessionXpWithQuality ==
    /\ pc = "grouped"
    /\ \E i \in 1..Len(sessions), cb \in CommitBeforeInputs, q \in QualityInputs :
           call' = [fn |-> "calculate_session_xp_with_quality",
                    session |-> sessions[i],
                    commit_before |-> cb,
                    quality |-> q,
                    xp |-> calculate_session_xp_with_quality(sessions[i], cb, q)]
    /\ pc' = "scored"
    /\ UNCHANGED <<reviews, commits, sessions, storeVars, syncVars>>

Next == GroupReviewsIntoSessions

Spec == Init /\ [][Next]_vars

NextScore ==
    \/ GroupReviewsIntoSessions
    \/ CalculateSessionXp

SpecScore == InitScore /\ [][NextScore]_vars

NextQuality ==
    \/ GroupReviewsIntoSessions
    \/ CalculateSessionXpWithQuality

SpecQuality == InitQuality /\ [][NextQuality]_vars

-----------------------------------------------------------------------------
(* The Recalculation Job on bounded tables *)

\* The tables before the first run: every reviewer has a user row, and users
\* and reviews carry xp of earlier awards (250 xp is level 2).
InitRecalc ==
    /\ \E shapes \in SeqsUpTo(RecalcShapes, MaxRecalcReviews) :
           /\ IF shapes = <<>> THEN TRUE ELSE shapes[1].gap = 30
           /\ reviews = RecalcReviews(shapes)
    /\ \E tables \in RecalcTables :
           commits = tables[1] /\ review_comments = tables[2]
    /\ users = [u \in UserIds |-> User(250, level_for(250), 1)]
    /\ xp_earned = [r \in 1..Len(reviews) |-> 35]
    /\ recalcs = <<>>
    /\ faulted = FALSE
    /\ NoSync
    /\ sessions = <<>>
    /\ call = NoCall
    /\ pc = "input"

\* The statements of a run that can fail, given the sessions it scores
Faults(all) ==
    {Fault(k, "run") : k \in {"reset_users", "review_sessions", "reset_xp_earned", "list_all"}}
    \cup {Fault("quality", a.key) : a \in all}
    \cup {Fault(k, <<a.key, a.index>>) : k \in {"add_xp", "set_xp_earned"}, a \in awarded(all)}

\* One run of recalculate_all_xp, from its first statement to its return.
\* At most one statement fails in a behaviour.
RecalculateAll ==
    \E all \in {session_awards(reviews, commits, review_comments, NoFault)} :
    \E fault \in {NoFault} \cup (IF faulted THEN {} ELSE Faults(all)) :
    \E run \in {recalculate_all_xp(
                    users, xp_earned, reviews,
                    IF fault.kind = "quality"
                    THEN session_awards(reviews, commits, review_comments, fault)
                    ELSE all,
                    fault)} :
        /\ users' = run.users
        /\ xp_earned' = run.xp_earned
        /\ recalcs' = (IF Len(recalcs) = 2 THEN <<recalcs[2]>> ELSE recalcs)
                       \o <<[fault |-> fault, result |-> run.result,
                             stats |-> run.stats, users |-> run.users]>>
        /\ faulted' = (faulted \/ fault # NoFault)
        /\ UNCHANGED <<reviews, commits, sessions, call, pc, review_comments, syncVars>>

NextRecalc == RecalculateAll

SpecRecalc == InitRecalc /\ [][NextRecalc]_vars

-----------------------------------------------------------------------------
(* The sync of one tracked repository, the review webhook, and GitHub *)

\* The clock advances in steps of one day, MaxTicks times
MaxTicks == 1

\* Reviews submitted on GitHub in a behaviour
MaxRemoteReviews == 2

\* Calls of backfill_repo in a behaviour
MaxSyncs == 2

\* Deliveries of the `submitted` webhook in a behaviour
MaxDeliveries == 1

\* per_page and the page limit of fetch_prs_since, scaled down from 100 and
\* 50 to the two PRs of the repository
PerPage == 1

MaxPages == 2

\* Backfiller.max_age_days
MaxAgeDays == 1

PageLimitNeverMutant(page) == FALSE

\* fetch_prs_since: `if page > 50 { break }`
page_limit_hit(page) == page > MaxPages

PrNumbers == <<"pr-1", "pr-2">>

PrAuthor == "author-1"

RemoteReviewers == {"reviewer-1"}

\* state and number of review comments of a submitted review
RemoteKinds == {<<"COMMENTED", 2>>}

\* The result of GitHubClient::get: Ok, Err(RateLimited { retry_after }) on
\* 403 / 429, or another ClientError. retry_after is the header's value (30)
\* or the default 60.
ApiFailures ==
    {[outcome |-> "error", retry_after |-> 0]}
    \cup {[outcome |-> "rate_limited", retry_after |-> n] : n \in {30, 60}}

\* At most one call of the GitHub API or the database fails in a behaviour
ApiResults ==
    {[outcome |-> "ok", retry_after |-> 0]} \cup (IF faulted THEN {} ELSE ApiFailures)

ClientError(api) ==
    IF api.outcome = "rate_limited" THEN "RateLimited" ELSE "Http"

\* A repository that was never synced: two PRs opened at time 0, no review
InitSync ==
    /\ github = [p \in Range(PrNumbers) |->
                    [created_at |-> 0, updated_at |-> 0, reviews |-> <<>>]]
    /\ now = 0
    /\ prs = <<>>
    /\ last_synced_at = None
    /\ syncs = <<>>
    /\ webhooks = <<>>
    /\ users = <<>>
    /\ reviews = <<>>
    /\ commits = <<>>
    /\ xp_earned = <<>>
    /\ review_comments = <<>>
    /\ recalcs = <<>>
    /\ faulted = FALSE
    /\ NoTasks
    /\ sessions = <<>>
    /\ call = NoCall
    /\ pc = "input"

Running == syncs # <<>> /\ syncs[Len(syncs)].pc # "done"

\* What the running call becomes
Becomes(run) == syncs' = [syncs EXCEPT ![Len(syncs)] = run]

\* backfill_repo returns: its locals are gone, the record keeps what it
\* fetched, its progress and what it returned
returned(run, result) ==
    [run EXCEPT !.pc = "done", !.page = 1, !.next = 1, !.db_pr = None, !.fetched = <<>>,
                !.comments_fetched = TRUE, !.new_users = 0, !.result = Some(result)]

Tick ==
    /\ now < MaxTicks * 86400
    /\ now' = now + 86400
    /\ UNCHANGED <<taskVars, reviews, commits, sessions, call, pc, storeVars,
                   prs, last_synced_at, syncs, github, webhooks>>

RemoteReviewCount == SumSeq([i \in 1..Len(PrNumbers) |-> Len(github[PrNumbers[i]].reviews)])

\* A reviewer submits a review on GitHub: the PR's updated_at moves to now
SubmitReview ==
    /\ RemoteReviewCount < MaxRemoteReviews
    /\ \E p \in Range(PrNumbers), u \in RemoteReviewers, k \in RemoteKinds :
           github' = [github EXCEPT
               ![p].updated_at = now,
               ![p].reviews = Append(@, GithubReview(<<p, Len(@) + 1>>, Some(u), k[1],
                                                     Some(now), k[2]))]
           /\ syncs' = IF Running THEN [syncs EXCEPT ![Len(syncs)].updated = @ \cup {p}]
                       ELSE syncs
    /\ UNCHANGED <<taskVars, reviews, commits, sessions, call, pc, storeVars,
                   prs, last_synced_at, webhooks, now>>

\* backfill_repo up to the call of fetch_prs_since: get_repo, the cursor,
\* sync_start and the cutoff. Without a stored cursor `force` changes nothing
\* (last_synced is None either way), so only unforced calls are taken then.
StartSync ==
    /\ ~Running
    /\ Len(syncs) < MaxSyncs
    /\ \E force \in (IF last_synced_at.some THEN BOOLEAN ELSE {FALSE}), api \in ApiResults :
           /\ faulted' = (faulted \/ api.outcome # "ok")
           /\ syncs' = Append(syncs,
               IF api.outcome = "ok"
               THEN SyncRun(force, "fetch", last_synced_of(force, last_synced_at),
                            cutoff_of(last_synced_of(force, last_synced_at), now, MaxAgeDays),
                            Some(now), None)
               ELSE SyncRun(force, "done", None, 0, None,
                            Some(Returned("GitHub", ClientError(api), api.retry_after))))
    /\ UNCHANGED <<taskVars, reviews, commits, sessions, call, pc, users, xp_earned, review_comments,
                   recalcs, prs, last_synced_at, github, webhooks, now>>

\* One iteration of the loop of fetch_prs_since, and, when it is the last,
\* the return to backfill_repo
FetchPage ==
    /\ Running
    /\ \E run \in {syncs[Len(syncs)]}, api \in ApiResults :
           /\ run.pc = "fetch"
           /\ faulted' = (faulted \/ api.outcome # "ok")
           /\ IF api.outcome # "ok"
              THEN Becomes(returned(run, Returned("GitHub", ClientError(api), api.retry_after)))
              ELSE \E page_prs \in {list_prs(listing_of(github, PrNumbers), run.page, PerPage)} :
                   \E all_prs \in {run.all_prs \o pushed_of(page_prs, run.cutoff)} :
                       IF \/ page_prs = <<>>
                          \/ page_is_last(page_prs, run.cutoff)
                          \/ page_limit_hit(run.page + 1)
                       THEN Becomes([run EXCEPT
                                !.pc = "process",
                                !.all_prs = all_prs,
                                !.progress.prs_total = Len(all_prs)])
                       ELSE Becomes([run EXCEPT !.page = @ + 1, !.all_prs = all_prs])
    /\ UNCHANGED <<taskVars, reviews, commits, sessions, call, pc, users, xp_earned, review_comments,
                   recalcs, prs, last_synced_at, github, webhooks, now>>

\* backfill_repo after process_pr returned Ok or an Err that is not
\* RateLimited: on to the next PR
next_pr(run, reviews_count, new_users) ==
    [run EXCEPT !.pc = "process",
                !.next = @ + 1,
                !.db_pr = None,
                !.fetched = <<>>,
                !.comments_fetched = TRUE,
                !.new_users = 0,
                !.progress.prs_processed = @ + 1,
                !.progress.reviews_processed = @ + reviews_count,
                !.progress.users_created = @ + new_users]

failing(run) == [run EXCEPT !.failed = @ \cup {run.next}]

SkipPrAbortsMutant(run) == returned(failing(run), Returned("Database", "", 0))

\* backfill_repo: `Err(e) => { warn!(..) }` and `progress.prs_processed += 1`
skip_pr(run) == next_pr(failing(run), 0, 0)

\* process_pr up to the loop over the reviews: the author and PR upserts and
\* the two listings. A failed upsert is Err(Database): the PR is skipped. A
\* rate-limited listing ends backfill_repo: the cursor is persisted and
\* Err(RateLimited) returned. A listing of reviews that fails otherwise is
\* Ok((0, new_users)); a listing of comments that fails otherwise counts no
\* comment.
ProcessPrFetch ==
    /\ Running
    /\ \E run \in {syncs[Len(syncs)]} :
       /\ run.pc = "process"
       /\ run.next <= Len(run.all_prs)
       /\ \/ /\ ~faulted
             /\ faulted' = TRUE
             /\ Becomes(skip_pr(run))
             /\ UNCHANGED <<users, prs, last_synced_at>>
          \/ \E pr \in {run.all_prs[run.next]}, list_reviews \in ApiResults :
             \E prs1 \in {upsert_pr(prs, pr.number, pr.created_at)} :
                 /\ users' = upsert_user(users, PrAuthor)
                 /\ prs' = prs1
                 /\ \/ /\ list_reviews.outcome = "rate_limited"
                       /\ faulted' = TRUE
                       /\ last_synced_at' = new_cursor(run, now)
                       /\ Becomes(returned(run, Returned("RateLimited", "RateLimited",
                                                          list_reviews.retry_after)))
                    \/ /\ list_reviews.outcome = "error"
                       /\ faulted' = TRUE
                       /\ UNCHANGED last_synced_at
                       /\ Becomes(next_pr(failing(run), 0,
                                          IF PrAuthor \in DOMAIN users THEN 0 ELSE 1))
                    \/ /\ list_reviews.outcome = "ok"
                       /\ \E list_review_comments \in ApiResults :
                          /\ faulted' = (faulted \/ list_review_comments.outcome # "ok")
                          /\ IF list_review_comments.outcome = "rate_limited"
                             THEN /\ last_synced_at' = new_cursor(run, now)
                                  /\ Becomes(returned(run,
                                         Returned("RateLimited", "RateLimited",
                                                  list_review_comments.retry_after)))
                             ELSE /\ UNCHANGED last_synced_at
                                  /\ Becomes([run EXCEPT
                                         !.failed = IF list_review_comments.outcome = "ok"
                                                    THEN @ ELSE @ \cup {run.next},
                                         !.pc = "store",
                                         !.db_pr = Some(prs1[pr.number]),
                                         !.fetched = github[pr.number].reviews,
                                         !.comments_fetched = (list_review_comments.outcome = "ok"),
                                         !.new_users = IF PrAuthor \in DOMAIN users THEN 0 ELSE 1])
    /\ UNCHANGED <<taskVars, reviews, commits, sessions, call, pc, xp_earned, review_comments,
                   recalcs, github, webhooks, now>>

\* process_pr from the loop over the reviews to its return
ProcessPrStore ==
    /\ Running
    /\ \E run \in {syncs[Len(syncs)]} :
       /\ run.pc = "store"
       /\ \E acc \in {store_reviews(
                         [users |-> users, reviews |-> reviews, reviews_count |-> 0,
                          new_users |-> run.new_users, first_review_at |-> None],
                         run.fetched, 1, run.db_pr.value, run.comments_fetched)} :
              /\ users' = acc.users
              /\ reviews' = acc.reviews
              /\ xp_earned' = with_new_rows(xp_earned, acc.reviews)
              /\ prs' = record_first_review(prs, run.db_pr.value, acc.first_review_at)
              /\ Becomes(next_pr(run, acc.reviews_count, acc.new_users))
    /\ UNCHANGED <<taskVars, commits, sessions, call, pc, review_comments, recalcs, faulted,
                   last_synced_at, github, webhooks, now>>

\* backfill_repo after the loop over the PRs: set_last_synced_at(sync_start)
\* and Ok(progress), or Err(Database) when the update fails
FinishSync ==
    /\ Running
    /\ \E run \in {syncs[Len(syncs)]} :
       /\ run.pc = "process"
       /\ run.next > Len(run.all_prs)
       /\ \/ /\ last_synced_at' = new_cursor(run, now)
             /\ Becomes(returned(run, Returned("Ok", "", 0)))
             /\ UNCHANGED faulted
          \/ /\ ~faulted
             /\ faulted' = TRUE
             /\ UNCHANGED last_synced_at
             /\ Becomes(returned(run, Returned("Database", "", 0)))
    /\ UNCHANGED <<taskVars, reviews, commits, sessions, call, pc, users, xp_earned, review_comments,
                   recalcs, prs, github, webhooks, now>>

Deliveries == SumSeq([i \in 1..Len(PrNumbers) |->
                 SumSeq([j \in 1..Len(github[PrNumbers[i]].reviews) |->
                     IF <<PrNumbers[i], j>> \in DOMAIN webhooks
                     THEN webhooks[<<PrNumbers[i], j>>] ELSE 0])])

\* handler.rs: EventHandler::handle_review for the `submitted` webhook of a
\* review, the achievement check at its end included; GitHub may deliver a
\* webhook again
HandleReview ==
    /\ \E p \in Range(PrNumbers) :
       \E i \in 1..Len(github[p].reviews) :
       \E review \in {github[p].reviews[i]} :
       \E delivered \in {IF review.id \in DOMAIN webhooks THEN webhooks[review.id] ELSE 0} :
       \E prs1 \in {upsert_pr(prs, p, github[p].created_at)} :
       \E submitted_at \in {IF review.submitted_at.some THEN review.submitted_at.value ELSE now} :
           /\ Deliveries < MaxDeliveries
           /\ webhooks' = [id \in DOMAIN webhooks \cup {review.id} |->
                              IF id = review.id THEN delivered + 1 ELSE webhooks[id]]
           /\ reviews' = insert_review(reviews, p, review.user.value, review.id,
                                       parse_state(review.state), 0, submitted_at)
           /\ xp_earned' = with_new_rows(xp_earned, reviews')
           /\ prs' = IF prs1[p].first_review_at.some THEN prs1
                     ELSE set_first_review(prs1, p, submitted_at)
           /\ users' = add_xp(upsert_user(upsert_user(users, review.user.value), PrAuthor),
                              review.user.value,
                              calculate_review_xp(prs1[p], submitted_at, 0))
           /\ achievements' = check_reviewer(achievements, reviews', commits,
                                              review.user.value, now)
           /\ checks' = Append(checks,
                  [fn |-> "check_reviewer", user_id |-> review.user.value,
                   count |-> count_by_user(reviews', review.user.value,
                                           now - 3650 * 86400)])
    /\ UNCHANGED <<sched, commits, sessions, call, pc, review_comments, recalcs,
                   faulted, last_synced_at, syncs, github, now>>

NextSync ==
    \/ Tick
    \/ SubmitReview
    \/ StartSync
    \/ FetchPage
    \/ ProcessPrFetch
    \/ ProcessPrStore
    \/ FinishSync
    \/ HandleReview

SpecSync == InitSync /\ [][NextSync]_vars

-----------------------------------------------------------------------------
(* The level of a user: add_xp, the reset of recalculate_all_xp,
   calculate_level and xp_for_level *)

\* Highest level asked of xp_for_level
MaxLevel == 20

\* The xp up to which add_xp is applied
MaxLevelXp == 500

\* The xp one add_xp adds
XpAwards == {10, 45, 100, 240}

\* The xp calculate_level is asked about, besides the thresholds and their
\* predecessors
LevelXps == {-100, -1, 0, 1, 99, 150}

InitLevel ==
    /\ users = [u \in {"reviewer-1"} |-> User(0, 1, 0)]
    /\ call = NoCall
    /\ reviews = <<>>
    /\ commits = <<>>
    /\ sessions = <<>>
    /\ pc = "input"
    /\ xp_earned = <<>>
    /\ review_comments = <<>>
    /\ recalcs = <<>>
    /\ faulted = FALSE
    /\ NoSync

LevelAddXp ==
    /\ \E u \in DOMAIN users, xp \in XpAwards :
           /\ users[u].xp + xp <= MaxLevelXp
           /\ users' = add_xp(users, u, xp)
           /\ call' = [fn |-> "add_xp", xp |-> xp, was |-> users[u]]
    /\ UNCHANGED <<reviews, commits, sessions, pc, xp_earned, review_comments, recalcs,
                   faulted, syncVars>>

\* The first statement of recalculate_all_xp
LevelReset ==
    /\ users' = reset_users(users)
    /\ call' = [fn |-> "reset_users"]
    /\ UNCHANGED <<reviews, commits, sessions, pc, xp_earned, review_comments, recalcs,
                   faulted, syncVars>>

XpForLevel ==
    /\ \E level \in 0..MaxLevel :
           call' = [fn |-> "xp_for_level", level |-> level, xp |-> xp_for_level(level)]
    /\ UNCHANGED <<reviews, commits, sessions, pc, storeVars, syncVars>>

\* calculate_level of one of LevelXps, or of the xp that xp_for_level has
\* just returned, or of one less
CalculateLevel ==
    /\ \E xp \in LevelXps \cup (IF call.fn = "xp_for_level"
                                THEN {call.xp, call.xp - 1} ELSE {}) :
           call' = [fn |-> "calculate_level", xp |-> xp, level |-> calculate_level(xp),
                    of |-> IF call.fn = "xp_for_level" THEN call ELSE NoCall]
    /\ UNCHANGED <<reviews, commits, sessions, pc, storeVars, syncVars>>

NextLevel ==
    \/ LevelAddXp
    \/ LevelReset
    \/ XpForLevel
    \/ CalculateLevel

SpecLevel == InitLevel /\ [][NextLevel]_vars

-----------------------------------------------------------------------------
(* fetch_prs_since over a listing that does not change while it is paged *)

\* PRs in the listing
MaxListing == 5

\* per_page, scaled down from 100
FetchPerPage == 2

\* Utc::now() of the call, and the times PRs were last updated
FetchNow == 3 * 86400

FetchTimes == {0, 86400, 2 * 86400, 3 * 86400}

\* The listings GitHub serves: newest-updated first
FetchListings ==
    UNION {{[i \in 1..n |-> GithubPr(ToString(i), 0, updated[i])] :
               updated \in {u \in [1..n -> FetchTimes] :
                               \A i \in 1..(n - 1) : u[i] >= u[i + 1]}} :
           n \in 0..MaxListing}

\* The locals of fetch_prs_since at the top of its loop; `fetches` counts the
\* calls of list_prs and `fetched` is the page the last of them returned
FetchCall(listing, since, time, max_age_days) ==
    [fn |-> "fetch_prs_since", listing |-> listing, since |-> since, time |-> time,
     max_age_days |-> max_age_days,
     cutoff |-> cutoff_of(since, time, max_age_days),
     page |-> 1, all_prs |-> <<>>, fetches |-> 0, fetched |-> <<>>,
     pc |-> "loop", result |-> "none"]

InitFetch ==
    /\ call = NoCall
    /\ users = <<>>
    /\ reviews = <<>>
    /\ commits = <<>>
    /\ sessions = <<>>
    /\ pc = "input"
    /\ xp_earned = <<>>
    /\ review_comments = <<>>
    /\ recalcs = <<>>
    /\ faulted = FALSE
    /\ NoSync

FetchBegin ==
    /\ IF call.fn = "fetch_prs_since" THEN call.pc = "done" ELSE TRUE
    /\ \E listing \in FetchListings, since \in {None} \cup {Some(t) : t \in FetchTimes} :
           call' = FetchCall(listing, since, FetchNow, MaxAgeDays)
    /\ UNCHANGED <<reviews, commits, sessions, pc, storeVars, syncVars>>

\* One iteration of the loop of fetch_prs_since
FetchLoop ==
    /\ call.fn = "fetch_prs_since"
    /\ call.pc = "loop"
    /\ \E ok \in BOOLEAN :
         IF ~ok
         THEN call' = [call EXCEPT !.pc = "done", !.result = "Err",
                                   !.fetches = @ + 1, !.fetched = <<>>]
         ELSE \E page_prs \in {list_prs(call.listing, call.page, FetchPerPage)} :
              \E all_prs \in {call.all_prs \o pushed_of(page_prs, call.cutoff)} :
                  IF \/ page_prs = <<>>
                     \/ page_is_last(page_prs, call.cutoff)
                     \/ page_limit_hit(call.page + 1)
                  THEN call' = [call EXCEPT !.pc = "done", !.result = "Ok",
                                            !.all_prs = all_prs,
                                            !.fetches = @ + 1, !.fetched = page_prs]
                  ELSE call' = [call EXCEPT !.page = @ + 1, !.all_prs = all_prs,
                                            !.fetches = @ + 1, !.fetched = page_prs]
    /\ UNCHANGED <<reviews, commits, sessions, pc, storeVars, syncVars>>

NextFetch ==
    \/ FetchBegin
    \/ FetchLoop

SpecFetch == InitFetch /\ [][NextFetch]_vars

-----------------------------------------------------------------------------
(* The scheduler task and the backfill route, with backfill_repo seen from
   its callers: a call begins, and later returns a result *)

\* The repositories, in the order of db::repos::list
Repos == <<"repo-1", "repo-2">>

\* Requests to POST /api/backfill in a behaviour
MaxManual == 1

\* The clock stops here
MaxClock == 5

RetryAfters == {2}

\* What backfill_repo returns: Ok, RateLimited(retry_after), or the rate
\* limit of get_repo or fetch_prs_since wrapped in GitHub(..)
BackfillResults ==
    {Returned("Ok", "", 0)}
    \cup {Returned("RateLimited", "RateLimited", n) : n \in RetryAfters}
    \cup {Returned("GitHub", "RateLimited", n) : n \in RetryAfters}

\* db::repos::list: the rows of `repositories`, ORDER BY owner, name
tracked(cursors) ==
    LET Tracked(repo) == repo \in DOMAIN cursors IN SelectSeq(Repos, Tracked)

\* Some of the repositories are tracked, none was synced; the task of the
\* sync service has been spawned
InitSched ==
    /\ last_synced_at \in {[r \in S |-> None] : S \in SUBSET Range(Repos)}
    /\ sched = SyncService("start", 0, 0)
    /\ syncs = <<>>
    /\ now = 0
    /\ faulted = FALSE
    /\ prs = <<>>
    /\ github = <<>>
    /\ webhooks = <<>>
    /\ achievements = <<>>
    /\ checks = <<>>
    /\ users = <<>>
    /\ reviews = <<>>
    /\ commits = <<>>
    /\ sessions = <<>>
    /\ call = NoCall
    /\ pc = "input"
    /\ xp_earned = <<>>
    /\ review_comments = <<>>
    /\ recalcs = <<>>

schedRest ==
    <<reviews, commits, sessions, call, pc, users, xp_earned, review_comments, recalcs,
      prs, github, webhooks, achievements, checks>>

\* Time passes while the task waits: for a tick, for backfill_repo, or in a
\* sleep; a tick or a sleep that is due is not waited for any longer
Clock ==
    /\ now < MaxClock
    /\ CASE sched.pc = "tick" -> now < sched.deadline
         [] sched.pc \in {"pause", "delay"} -> now < sched.wake
         [] sched.pc = "await" -> TRUE
         [] OTHER -> FALSE
    /\ now' = now + 1
    /\ UNCHANGED <<sched, syncs, last_synced_at, faulted, schedRest>>

SchedStart ==
    /\ sched.pc = "start"
    /\ sched' = skip_first_tick(sched, now)
    /\ UNCHANGED <<now, syncs, last_synced_at, faulted, schedRest>>

\* ticker.tick().await completes: the ticks are Interval apart whatever the
\* time sync_all took
SchedTick ==
    /\ sched.pc = "tick"
    /\ now >= sched.deadline
    /\ sched' = [sched EXCEPT !.pc = "list", !.tick = @ + 1, !.deadline = @ + Interval]
    /\ UNCHANGED <<now, syncs, last_synced_at, faulted, schedRest>>

\* sync_all up to the loop; a failing db::repos::list ends it
SchedList ==
    /\ sched.pc = "list"
    /\ \E ok \in {TRUE} \cup (IF faulted THEN {} ELSE {FALSE}) :
           /\ faulted' = (faulted \/ ~ok)
           /\ \E repos \in {tracked(last_synced_at)} :
                  sched' = IF ~ok \/ repos = <<>>
                           THEN [sched EXCEPT !.pc = "tick"]
                           ELSE [sched EXCEPT !.pc = "call", !.repos = repos, !.i = 1]
    /\ UNCHANGED <<now, syncs, last_synced_at, schedRest>>

SchedCall ==
    /\ sched.pc = "call"
    /\ syncs' = Append(syncs, BackfillCall("scheduler", sched.repos[sched.i],
                                           sched.tick, now))
    /\ sched' = [sched EXCEPT !.pc = "await", !.run = Len(syncs) + 1]
    /\ UNCHANGED <<now, last_synced_at, faulted, schedRest>>

\* POST /api/backfill/:owner/:name
ManualTrigger ==
    /\ Cardinality({k \in 1..Len(syncs) : syncs[k].caller = "manual"}) < MaxManual
    /\ \E repo \in Range(Repos) :
           syncs' = Append(syncs, BackfillCall("manual", repo, 0, now))
    /\ UNCHANGED <<now, sched, last_synced_at, faulted, schedRest>>

\* A call of backfill_repo returns; unless get_repo or fetch_prs_since
\* failed, the repository is tracked and its cursor is the call's sync_start
BackfillReturn ==
    /\ \E k \in 1..Len(syncs), result \in BackfillResults :
           /\ ~syncs[k].ended.some
           /\ syncs' = [syncs EXCEPT ![k].ended = Some(now), ![k].result = Some(result)]
           /\ last_synced_at' =
                  IF result.kind = "GitHub" THEN last_synced_at
                  ELSE [r \in DOMAIN last_synced_at \cup {syncs[k].repo} |->
                           IF r = syncs[k].repo THEN Some(syncs[k].started)
                                                ELSE last_synced_at[r]]
    /\ UNCHANGED <<now, sched, faulted, schedRest>>

SchedResume ==
    /\ sched.pc = "await"
    /\ awaited(syncs[sched.run])
    /\ sched' = on_result(sched, syncs[sched.run].result, now)
    /\ UNCHANGED <<now, syncs, last_synced_at, faulted, schedRest>>

\* tokio::time::sleep(retry_after) is over
SchedWake ==
    /\ sched.pc = "pause"
    /\ now >= sched.wake
    /\ sched' = [sched EXCEPT !.pc = "delay", !.wake = now + RepoDelay]
    /\ UNCHANGED <<now, syncs, last_synced_at, faulted, schedRest>>

\* The delay between two repositories is over: the next repository, or the
\* return of sync_all
SchedNext ==
    /\ sched.pc = "delay"
    /\ now >= sched.wake
    /\ sched' = IF sched.i < Len(sched.repos)
                THEN [sched EXCEPT !.pc = "call", !.i = @ + 1]
                ELSE [sched EXCEPT !.pc = "tick"]
    /\ UNCHANGED <<now, syncs, last_synced_at, faulted, schedRest>>

NextSched ==
    \/ Clock
    \/ SchedStart
    \/ SchedTick
    \/ SchedList
    \/ SchedCall
    \/ ManualTrigger
    \/ BackfillReturn
    \/ SchedResume
    \/ SchedWake
    \/ SchedNext

SpecSched == InitSched /\ [][NextSched]_vars

-----------------------------------------------------------------------------
(* Calls of check_reviewer and check_author by webhook handlers that run at
   the same time, one database statement per step *)

\* Calls in a behaviour
MaxChecks == 2

\* The clock of NOW() stops here
MaxAchClock == 2

AchUsers == {"reviewer-1", "author-1"}

\* What the counting queries of a call return
ReviewCounts == {1, 10}

FastCounts == {0, 10}

PrCounts == {1, 2}

MergedCounts == {0, 10}

\* The locals of one call: the achievements whose condition held and that
\* are still to be tried, the ones try_unlock returned true for, and where
\* the call stands in try_unlock: has (about to query has_achievement),
\* unlock (has was false, about to run unlock), done. `created` is not a
\* local: it records the achievements whose row this call inserted.
Check(fn, user_id, candidates) ==
    [fn |-> fn, user_id |-> user_id, candidates |-> candidates,
     pc |-> IF candidates = <<>> THEN "done" ELSE "has",
     unlocked |-> <<>>, created |-> {}, result |-> IF candidates = <<>> THEN "Ok" ELSE "none"]

\* try_unlock has returned to the call: on to the next candidate
next_candidate(check) ==
    [check EXCEPT !.candidates = Tail(@),
                  !.pc = IF Tail(check.candidates) = <<>> THEN "done" ELSE "has",
                  !.result = IF Tail(check.candidates) = <<>> THEN "Ok" ELSE "none"]

InitAch ==
    /\ achievements = <<>>
    /\ checks = <<>>
    /\ sched = [pc |-> "off"]
    /\ now = 0
    /\ faulted = FALSE
    /\ prs = <<>>
    /\ last_synced_at = None
    /\ syncs = <<>>
    /\ github = <<>>
    /\ webhooks = <<>>
    /\ users = <<>>
    /\ reviews = <<>>
    /\ commits = <<>>
    /\ sessions = <<>>
    /\ call = NoCall
    /\ pc = "input"
    /\ xp_earned = <<>>
    /\ review_comments = <<>>
    /\ recalcs = <<>>

achRest ==
    <<reviews, commits, sessions, call, pc, users, xp_earned, review_comments, recalcs,
      prs, last_synced_at, syncs, github, webhooks, sched>>

AchClock ==
    /\ now < MaxAchClock
    /\ now' = now + 1
    /\ UNCHANGED <<achievements, checks, faulted, achRest>>

\* check_reviewer up to its first try_unlock, the counting queries included
CheckReviewer ==
    /\ Len(checks) < MaxChecks
    /\ \E user_id \in AchUsers, count \in ReviewCounts, fast_count \in FastCounts,
          has_streak \in BOOLEAN :
           checks' = Append(checks,
               Check("check_reviewer", user_id,
                     reviewer_candidates(count, fast_count, has_streak)))
    /\ UNCHANGED <<now, achievements, faulted, achRest>>

CheckAuthor ==
    /\ Len(checks) < MaxChecks
    /\ \E user_id \in AchUsers, pr_count \in PrCounts, merged_count \in MergedCounts :
           checks' = Append(checks,
               Check("check_author", user_id, author_candidates(pr_count, merged_count)))
    /\ UNCHANGED <<now, achievements, faulted, achRest>>

\* try_unlock: the has_achievement query, which may fail
TryUnlockHas ==
    /\ \E k \in 1..Len(checks), ok \in {TRUE} \cup (IF faulted THEN {} ELSE {FALSE}) :
           /\ checks[k].pc = "has"
           /\ faulted' = (faulted \/ ~ok)
           /\ checks' = [checks EXCEPT ![k] =
                  IF ~ok THEN [@ EXCEPT !.pc = "done", !.result = "Database"]
                  ELSE IF has_achievement(achievements, @.user_id, Head(@.candidates))
                       THEN next_candidate(@)
                       ELSE [@ EXCEPT !.pc = "unlock"]]
    /\ UNCHANGED <<now, achievements, achRest>>

\* try_unlock: the unlock statement and `Ok(true)`
TryUnlockUnlock ==
    /\ \E k \in 1..Len(checks) :
           /\ checks[k].pc = "unlock"
           /\ \E id \in {Head(checks[k].candidates)} :
                  /\ achievements' = unlock(achievements, checks[k].user_id, id, now)
                  /\ checks' = [checks EXCEPT ![k] =
                         next_candidate(
                             [@ EXCEPT !.unlocked = Append(@, id),
                                       !.created =
                                           IF has_achievement(achievements, checks[k].user_id, id)
                                           THEN @ ELSE @ \cup {id}])]
    /\ UNCHANGED <<now, faulted, achRest>>

NextAch ==
    \/ AchClock
    \/ CheckReviewer
    \/ CheckAuthor
    \/ TryUnlockHas
    \/ TryUnlockUnlock

SpecAch == InitAch /\ [][NextAch]_vars

-----------------------------------------------------------------------------
(* is_fast_review applied to a PR's creation time and a review's submission
   time *)

\* PRs are created on the hour, up to this hour
MaxMetricHours == 5

\* Seconds from the creation of the PR to the submission of the review; 30
\* and 59 minutes, 1 hour and 2 hours are the cases of metrics_test.rs
MetricDelays ==
    {0, 60, 900, 1800, 2700, 3540, 3599, 3600, 3601, 5400, 7200, 10800,
     14399, 14400, 14401, 18000, 86400}

InitMetrics ==
    /\ call = NoCall
    /\ users = <<>>
    /\ reviews = <<>>
    /\ commits = <<>>
    /\ sessions = <<>>
    /\ pc = "input"
    /\ xp_earned = <<>>
    /\ review_comments = <<>>
    /\ recalcs = <<>>
    /\ faulted = FALSE
    /\ NoSync

IsFastReview ==
    /\ \E hour \in 0..MaxMetricHours, delay \in MetricDelays :
           call' = [fn |-> "is_fast_review",
                    pr_created |-> hour * 3600,
                    review_submitted |-> hour * 3600 + delay,
                    fast |-> is_fast_review(hour * 3600, hour * 3600 + delay)]
    /\ UNCHANGED <<reviews, commits, sessions, pc, storeVars, syncVars>>

NextMetrics == IsFastReview

SpecMetrics == InitMetrics /\ [][NextMetrics]_vars

-----------------------------------------------------------------------------
(* Vocabulary of the session properties, stated over the input events and  *)
(* the returned sessions rather than over the grouping loop.               *)

Grouped == pc = "grouped"

Events == Range(reviews)

\* Positions of the input list, and the submission time of the event at one
Positions == 1..Len(reviews)

At(i) == reviews[i].submitted_at

PrCommitTimes == {commits[i].committed_at : i \in {j \in 1..Len(commits) : commits[j].pr_id = ThisPr}}

\* The places <<session, index>> at which the event at position i is returned
Places(i) ==
    UNION {{<<k, j>> : j \in {n \in 1..Len(sessions[k].reviews) :
                                 sessions[k].reviews[n] = reviews[i]}} :
              k \in 1..Len(sessions)}

\* The session in which the event at each position is returned (events are
\* told apart by their ids)
SessionIndex ==
    [i \in Positions |->
        CHOOSE k \in 1..Len(sessions) :
            \E n \in 1..Len(sessions[k].reviews) : sessions[k].reviews[n].id = reviews[i].id]

\* The events at i and j are chronologically consecutive: the first is not
\* later than the second and no event lies strictly between them
Consecutive(i, j) ==
    /\ i # j
    /\ At(i) <= At(j)
    /\ ~\E n \in Positions : At(i) < At(n) /\ At(n) < At(j)

CommitStrictlyBetween(i, j) ==
    \E t \in PrCommitTimes : At(i) < t /\ t < At(j)

\* A consecutive pair that a session boundary must separate
Boundary(i, j) ==
    /\ Consecutive(i, j)
    /\ \/ At(j) - At(i) > SessionGapSecs
       \/ CommitStrictlyBetween(i, j)

\* The distinct instants after which a boundary falls
BoundaryTimes == {At(i) : i \in {x \in Positions : \E j \in Positions : Boundary(x, j)}}

SessionSizes == [k \in 1..Len(sessions) |-> Len(sessions[k].reviews)]

-----------------------------------------------------------------------------
(* C1. Partition property: for a non-empty list of events of one (PR,      *)
(* reviewer) and any commits, every input event is returned in exactly one *)
(* session (and nothing else is returned), the sessions are in             *)
(* chronological order, and each session starts strictly after the         *)
(* previous one ends.                                                      *)
C1_Partition ==
    (Grouped /\ reviews # <<>>) =>
        /\ \A i \in Positions : Cardinality(Places(i)) = 1
        /\ \A k \in 1..Len(sessions) : Range(sessions[k].reviews) \subseteq Events
        /\ SumSeq(SessionSizes) = Len(reviews)
        /\ \A k \in 1..Len(sessions) - 1 :
              /\ sessions[k].started_at < sessions[k + 1].started_at
              /\ sessions[k].ended_at < sessions[k + 1].started_at
              /\ \A a \in Range(sessions[k].reviews), b \in Range(sessions[k + 1].reviews) :
                    a.submitted_at < b.submitted_at

\* An unsorted input that is split into several sessions, one of them with
\* more than one event
C1_Witness ==
    /\ Grouped
    /\ Len(sessions) >= 2
    /\ \E k \in 1..Len(sessions) : Len(sessions[k].reviews) >= 2
    /\ \E i, j \in Positions : i < j /\ At(i) > At(j)

(* C2. Gap rule: two chronologically consecutive events more than 24h      *)
(* apart are in different sessions; at most 24h apart (24h included) with  *)
(* no commit of the PR strictly between them, they are in the same one.    *)
C2_GapRule ==
    Grouped =>
        LET SessionOf == SessionIndex
        IN \A i, j \in Positions :
             Consecutive(i, j) =>
                 /\ (At(j) - At(i) > SessionGapSecs) => SessionOf[i] # SessionOf[j]
                 /\ (At(j) - At(i) <= SessionGapSecs /\ ~CommitStrictlyBetween(i, j))
                       => SessionOf[i] = SessionOf[j]

\* A pair exactly 24h apart kept together and a pair more than 24h apart split
C2_Witness ==
    /\ Grouped
    /\ \E i, j \in Positions :
          /\ Consecutive(i, j)
          /\ At(j) - At(i) = SessionGapSecs
          /\ SessionIndex[i] = SessionIndex[j]
    /\ \E i, j \in Positions :
          /\ Consecutive(i, j)
          /\ At(j) - At(i) > SessionGapSecs
          /\ SessionIndex[i] # SessionIndex[j]

(* C3. Commit rule: a commit of the PR strictly between two consecutive    *)
(* events puts them in different sessions; commits at either event time or *)
(* outside the open interval (and commits of other PRs) never split two    *)
(* events that are at most 24h apart.                                      *)
C3_CommitRule ==
    Grouped =>
        LET SessionOf == SessionIndex
        IN \A i, j \in Positions :
             Consecutive(i, j) =>
                 /\ CommitStrictlyBetween(i, j) => SessionOf[i] # SessionOf[j]
                 /\ (/\ At(j) - At(i) <= SessionGapSecs
                      /\ \A t \in PrCommitTimes : t <= At(i) \/ t >= At(j))
                       => SessionOf[i] = SessionOf[j]

\* One pair split by a commit inside its interval, and another pair left
\* together although a commit sits on the time of its first event
C3_Witness ==
    /\ Grouped
    /\ \E i, j \in Positions :
          /\ Consecutive(i, j)
          /\ At(j) - At(i) <= SessionGapSecs
          /\ CommitStrictlyBetween(i, j)
          /\ SessionIndex[i] # SessionIndex[j]
    /\ \E i, j \in Positions :
          /\ Consecutive(i, j)
          /\ At(i) < At(j)
          /\ At(i) \in PrCommitTimes
          /\ SessionIndex[i] = SessionIndex[j]

(* C4. Session count: the number of sessions is 1 plus the number of       *)
(* places between consecutive events that are more than 24h wide or hold   *)
(* at least one commit; several commits in one interval make one boundary, *)
(* commits before the first or after the last event make none. The 18      *)
(* events of PR 8754 with two commits between events 17 and 18 give two    *)
(* sessions of sizes 17 and 1.                                             *)
C4_SessionCount ==
    (Grouped /\ reviews # <<>>) =>
        /\ Len(sessions) = 1 + Cardinality(BoundaryTimes)
        /\ (reviews = Pr8754Reviews /\ commits = Pr8754Commits) => SessionSizes = <<17, 1>>

\* The PR 8754 fixture has been grouped
C4_Witness ==
    /\ Grouped
    /\ reviews = Pr8754Reviews
    /\ commits = Pr8754Commits
    /\ Len(sessions) = 2

\* Two commits of the PR inside one interval make a single boundary
C4_WitnessSmall ==
    /\ Grouped
    /\ Len(sessions) = 2
    /\ \E i, j \in Positions :
          /\ Consecutive(i, j)
          /\ Cardinality({n \in 1..Len(commits) :
                 /\ commits[n].pr_id = ThisPr
                 /\ At(i) < commits[n].committed_at
                 /\ commits[n].committed_at < At(j)}) = 2

(* C5. Session fields: started_at is the minimum and ended_at the maximum  *)
(* submission time of the session's events, total_comments is the sum of   *)
(* their comment counts; no events give no sessions, and one event gives   *)
(* one session with started_at = ended_at.                                 *)
C5_SessionFields ==
    Grouped =>
        /\ \A k \in 1..Len(sessions) :
              LET rs == sessions[k].reviews
                  ts == {rs[j].submitted_at : j \in 1..Len(rs)}
              IN /\ rs # <<>>
                 /\ sessions[k].started_at \in ts
                 /\ sessions[k].ended_at \in ts
                 /\ \A t \in ts : sessions[k].started_at <= t /\ t <= sessions[k].ended_at
                 /\ sessions[k].total_comments = SumSeq([j \in 1..Len(rs) |-> rs[j].comments_count])
        /\ (reviews = <<>>) => (sessions = <<>>)
        /\ (Len(reviews) = 1) =>
              (Len(sessions) = 1 /\ sessions[1].started_at = sessions[1].ended_at)

\* A session of several events at different times, with comments
C5_Witness ==
    /\ Grouped
    /\ \E k \in 1..Len(sessions) :
          /\ Len(sessions[k].reviews) >= 2
          /\ sessions[k].started_at < sessions[k].ended_at
          /\ sessions[k].total_comments >= 4

-----------------------------------------------------------------------------
(* Vocabulary of the score properties, stated over the arguments and the   *)
(* result of the last call.                                                *)

Scored == pc = "scored"

NoQuality == call.quality = None

CallStates == {call.session.reviews[j].state : j \in 1..Len(call.session.reviews)}

CallHasStateChange == CallStates \cap {"Approved", "ChangesRequested"} # {}

CallDuration == call.session.ended_at - call.session.started_at

CallComments == call.session.total_comments

\* The two rejection rules of the Score Calculator
CallRejected ==
    CallComments = 0 /\ (~CallHasStateChange \/ CallDuration < 60)

\* A prior commit time is supplied and 0 < started_at - prior < 1 hour
CallFast ==
    /\ call.commit_before.some
    /\ 0 < call.session.started_at - call.commit_before.value
    /\ call.session.started_at - call.commit_before.value < 3600

CallFastPart == IF CallFast THEN 10 ELSE 0

CallThoroughPart == IF CallComments > 5 THEN 5 ELSE 0

CallDeepPart == IF CallComments > 10 THEN 10 ELSE 0

\* The same call without a prior commit time
CallXpWithoutCommit ==
    IF call.fn = "calculate_session_xp"
    THEN calculate_session_xp(call.session, None)
    ELSE calculate_session_xp_with_quality(call.session, None, call.quality)

(* C6. Rejection: without quality data the score is 0 exactly when the     *)
(* session has zero comments and either no Approved/ChangesRequested event *)
(* or a duration under 60 seconds, whatever bonus would apply; a           *)
(* zero-comment session with a state change lasting 60 seconds or more     *)
(* gets the base 10 (and nothing but the fast bonus on top of it).         *)
C6_Rejection ==
    (Scored /\ NoQuality) =>
        /\ (call.xp = 0) <=> CallRejected
        /\ (CallComments = 0 /\ CallHasStateChange /\ CallDuration >= 60)
              => call.xp = 10 + CallFastPart
        /\ (CallComments = 0 /\ CallHasStateChange /\ CallDuration >= 60
                /\ call.commit_before = None)
              => call.xp = 10

\* A zero-comment ChangesRequested session lasting exactly 60 seconds scores 10
C6_Witness ==
    /\ Scored
    /\ call.fn = "calculate_session_xp"
    /\ CallComments = 0
    /\ "ChangesRequested" \in CallStates
    /\ "Approved" \notin CallStates
    /\ CallDuration = 60
    /\ call.commit_before = None
    /\ call.xp = 10

\* A zero-comment Approved session lasting 30 seconds scores 0 although the
\* fast bonus would apply
C6_WitnessRejected ==
    /\ Scored
    /\ call.fn = "calculate_session_xp"
    /\ CallComments = 0
    /\ "Approved" \in CallStates
    /\ CallDuration = 30
    /\ CallFast
    /\ call.xp = 0

(* C7. Flat score: a non-rejected session with n comments and no quality   *)
(* data scores 10 + 5n, plus 5 if n > 5, plus 10 if n > 10, plus 10 if the *)
(* fast bonus applies; the comment part is not capped (7 comments give 50, *)
(* 12 comments give 85).                                                   *)
C7_FlatScore ==
    (Scored /\ NoQuality /\ ~CallRejected) =>
        /\ call.xp = 10 + 5 * CallComments + CallThoroughPart + CallDeepPart + CallFastPart
        /\ (CallComments = 7 /\ ~CallFast) => call.xp = 50
        /\ (CallComments = 12 /\ ~CallFast) => call.xp = 85

\* 12 comments and no prior commit: 85
C7_Witness ==
    /\ Scored
    /\ call.fn = "calculate_session_xp"
    /\ CallComments = 12
    /\ call.commit_before = None
    /\ call.xp = 85

\* 7 comments in a ChangesRequested session: 50
C7_WitnessThorough ==
    /\ Scored
    /\ call.fn = "calculate_session_xp"
    /\ CallComments = 7
    /\ "ChangesRequested" \in CallStates
    /\ call.commit_before = None
    /\ call.xp = 50

(* C8. Fast bonus: a scored (non-rejected) session gets 10 more than the   *)
(* same call without a prior commit time exactly when a prior commit time  *)
(* is supplied and 0 < started_at - prior < 1 hour, both bounds strict;    *)
(* a delay of 0, of exactly 1 hour, a negative delay or no prior commit    *)
(* time adds nothing.                                                      *)
C8_FastBonus ==
    Scored =>
        /\ call.xp - CallXpWithoutCommit \in {0, 10}
        /\ ~CallRejected => ((call.xp - CallXpWithoutCommit = 10) <=> CallFast)
        /\ CallRejected => call.xp = CallXpWithoutCommit

\* A delay of 3599 seconds earns the bonus
C8_Witness ==
    /\ Scored
    /\ call.fn = "calculate_session_xp"
    /\ call.commit_before = Some(1)
    /\ call.session.started_at = 3600
    /\ call.xp - CallXpWithoutCommit = 10

\* A delay of exactly one hour does not
C8_WitnessHour ==
    /\ Scored
    /\ call.fn = "calculate_session_xp"
    /\ call.commit_before = Some(0)
    /\ call.session.started_at = 3600
    /\ call.xp > 0
    /\ call.xp = CallXpWithoutCommit

(* C9. Quality-weighted score: with quality data a non-rejected session    *)
(* scores 10 + 2 low + 5 medium + 8 high + 5 (total_comments -             *)
(* categorized_count) + 3 logic + 2 structural, plus the thorough, deep    *)
(* and fast bonuses, which still go by total_comments (5 high with 2 logic *)
(* and 1 structural give 58; 4 categorized and 2 uncategorized of 6 give   *)
(* 48).                                                                    *)
C9_QualityScore ==
    (Scored /\ ~NoQuality /\ ~CallRejected) =>
        LET q == call.quality.value
        IN /\ call.xp = 10 + 2 * q.by_tier[1] + 5 * q.by_tier[2] + 8 * q.by_tier[3]
                           + 5 * (CallComments - q.categorized_count)
                           + 3 * q.by_category[1] + 2 * q.by_category[2]
                           + CallThoroughPart + CallDeepPart + CallFastPart
           /\ (CallComments = 5 /\ ~CallFast
                  /\ q = CommentQualityData(<<0, 0, 5>>, <<2, 1, 2>>, 5))
                 => call.xp = 58
           /\ (CallComments = 6 /\ ~CallFast
                  /\ q = CommentQualityData(<<1, 2, 1>>, <<1, 0, 3>>, 4))
                 => call.xp = 48

\* 6 comments of which 4 are categorized: 48
C9_Witness ==
    /\ Scored
    /\ call.fn = "calculate_session_xp_with_quality"
    /\ CallComments = 6
    /\ call.commit_before = None
    /\ call.quality = Some(CommentQualityData(<<1, 2, 1>>, <<1, 0, 3>>, 4))
    /\ call.xp = 48

\* 5 high-quality comments, 2 logic and 1 structural: 58
C9_WitnessHigh ==
    /\ Scored
    /\ CallComments = 5
    /\ call.commit_before = None
    /\ call.quality = Some(CommentQualityData(<<0, 0, 5>>, <<2, 1, 2>>, 5))
    /\ call.xp = 58

-----------------------------------------------------------------------------
(* Vocabulary of the recalculation properties, stated over the tables and  *)
(* the records of the runs.                                                *)

\* The last run of recalculate_all_xp has returned, with no failed statement
Recalculated == recalcs # <<>> /\ recalcs[Len(recalcs)].fault = NoFault

\* Two runs in a row, neither with a failed statement
RecalculatedTwice ==
    Len(recalcs) = 2 /\ recalcs[1].fault = NoFault /\ recalcs[2].fault = NoFault

\* The sessions rebuilt from the persisted review events, each with its score
RebuiltSessions == session_awards(reviews, commits, review_comments, NoFault)

SessionsOfUser(u) == {a \in RebuiltSessions : a.reviewer_id = u}

\* The ids of the events of a rebuilt session
EventIds(a) == {a.session.reviews[i].id : i \in 1..Len(a.session.reviews)}

\* The chronologically first event of a rebuilt session
FirstEvent(a) ==
    CHOOSE r \in EventIds(a) : reviews[r].submitted_at = a.session.started_at

RECURSIVE SumXpEarned(_)
SumXpEarned(rs) ==
    IF rs = {} THEN 0
    ELSE LET r == CHOOSE r \in rs : TRUE
         IN xp_earned[r] + SumXpEarned(rs \ {r})

EventsOfUser(u) == {r \in 1..Len(reviews) : reviews[r].reviewer_id = u}

-----------------------------------------------------------------------------
(* C11: recalculate_all is idempotent: two runs in a row over the same      *)
(* persisted reviews, commits and comment-quality data both succeed and     *)
(* return the same total_reviews, total_sessions and total_xp_awarded, and  *)
(* they leave every user with the same xp.                                  *)

C11_Idempotent ==
    RecalculatedTwice =>
        /\ recalcs[1].result = "Ok" /\ recalcs[2].result = "Ok"
        /\ recalcs[2].stats = recalcs[1].stats
        /\ \A u \in DOMAIN users :
               /\ recalcs[2].users[u].xp = recalcs[1].users[u].xp
               /\ users[u].xp = recalcs[2].users[u].xp

\* Two clean runs over tables with two positively scored sessions of one
\* reviewer, who held other xp before the first run.
C11_Witness ==
    /\ RecalculatedTwice
    /\ recalcs[2].stats.value.total_sessions >= 2
    /\ recalcs[2].stats.value.total_xp_awarded >= 40
    /\ \E u \in DOMAIN users : users[u].xp >= 40 /\ users[u].xp # 250

-----------------------------------------------------------------------------
(* C12: after a run of recalculate_all with no failed statement, each       *)
(* user's xp is the sum of the scores of the sessions rebuilt from that     *)
(* user's persisted review events, whatever the user held before, and a     *)
(* user with no positively scored session has xp 0 and level 1.             *)

C12_XpIsSessionSum ==
    Recalculated =>
        \A u \in DOMAIN users :
            /\ users[u].xp = SumXp(SessionsOfUser(u))
            /\ (\A a \in SessionsOfUser(u) : a.xp <= 0) =>
                   users[u].xp = 0 /\ users[u].level = 1

\* A clean run that leaves one reviewer with the scores of two sessions on
\* different PRs and the other reviewer, who held 250 xp before and has no
\* positively scored session, with xp 0 and level 1.
C12_Witness ==
    /\ Recalculated
    /\ \E u \in DOMAIN users :
           /\ Cardinality({a.key : a \in {b \in SessionsOfUser(u) : b.xp > 0}}) = 2
           /\ users[u].xp >= 40
    /\ \E u \in DOMAIN users :
           /\ \A a \in SessionsOfUser(u) : a.xp = 0
           /\ users[u].xp = 0
           /\ users[u].level = 1

-----------------------------------------------------------------------------
(* C13: after a run of recalculate_all with no failed statement, the score  *)
(* of each positively scored session is the xp_earned of the session's      *)
(* chronologically first event, every other event has xp_earned 0, and for  *)
(* each reviewer the xp_earned of their events add up to the reviewer's xp. *)

C13_XpEarnedOnFirstEvent ==
    Recalculated =>
        /\ \A a \in RebuiltSessions : a.xp > 0 => xp_earned[FirstEvent(a)] = a.xp
        /\ \A r \in DOMAIN xp_earned :
               (\A a \in RebuiltSessions : a.xp > 0 => r # FirstEvent(a)) => xp_earned[r] = 0
        /\ \A u \in DOMAIN users : SumXpEarned(EventsOfUser(u)) = users[u].xp

\* A clean run over a positively scored session of two events: the first
\* carries the score, the second carries nothing.
C13_Witness ==
    /\ Recalculated
    /\ \E a \in RebuiltSessions :
           /\ a.xp > 0
           /\ Len(a.session.reviews) = 2
           /\ xp_earned[a.session.reviews[1].id] = a.xp
           /\ xp_earned[a.session.reviews[2].id] = 0

-----------------------------------------------------------------------------
(* Claims about the sync of a repository and the review webhook *)

\* The external ids of the stored review events
StoredIds == {reviews[i].github_id : i \in 1..Len(reviews)}

Xp(u) == IF u \in DOMAIN users THEN users[u].xp ELSE 0

(* C14: processing a review event whose external id is already stored, by a
   repeated or forced sync of its PR or by a redelivered webhook, awards no
   XP again: a step that stores no new review event leaves every user's xp
   as it was. *)
C14_AwardedOnce ==
    [][StoredIds' = StoredIds => \A u \in DOMAIN users' : users'[u].xp = Xp(u)]_vars

\* The k-th call returned `kind`
ReturnedKind(k, kind) ==
    /\ syncs[k].pc = "done"
    /\ syncs[k].result.value.kind = kind

\* fetch_prs_since returned Ok to the k-th call
FetchReturned(k) ==
    /\ syncs[k].sync_start.some
    /\ \/ syncs[k].pc \in {"process", "store"}
       \/ /\ syncs[k].pc = "done"
          /\ syncs[k].result.value.kind # "GitHub"

\* The PRs fetch_prs_since returned to the k-th call
FetchedBy(k) == {syncs[k].all_prs[i].number : i \in 1..Len(syncs[k].all_prs)}

\* The k-th call completed normally and the next call, not forced, has its
\* PR listing
NextAfterCompleted(k) ==
    /\ ReturnedKind(k, "Ok")
    /\ ~syncs[k + 1].force
    /\ FetchReturned(k + 1)

\* A call that completed normally, none started since, leaves the cursor at
\* its sync_start
CursorIsSyncStart ==
    (syncs # <<>> /\ ReturnedKind(Len(syncs), "Ok"))
        => last_synced_at = syncs[Len(syncs)].sync_start

(* C15 as stated: on normal completion last_synced_at is the sync_start of
   the run, captured before the PR listing was fetched; every PR updated
   while the run was in progress has updated_at at or after that cursor and
   is in the listing that the next, non-forced, sync fetches. *)
C15_FetchedByNext ==
    /\ CursorIsSyncStart
    /\ \A k \in 1..(Len(syncs) - 1) :
           NextAfterCompleted(k) =>
               /\ syncs[k + 1].cutoff = syncs[k].sync_start.value
               /\ \A p \in syncs[k].updated :
                      /\ github[p].updated_at >= syncs[k].sync_start.value
                      /\ p \in FetchedBy(k + 1)

(* C15, amended: on normal completion last_synced_at is the sync_start of
   the run; every PR updated while the run was in progress has updated_at at
   or after that cursor, and the next, non-forced, sync fetches it unless
   the PR is updated again while that sync is in progress (then it is at or
   after that sync's sync_start as well). *)
C15_FetchedOrUpdatedAgain ==
    /\ CursorIsSyncStart
    /\ \A k \in 1..(Len(syncs) - 1) :
           NextAfterCompleted(k) =>
               /\ syncs[k + 1].cutoff = syncs[k].sync_start.value
               /\ \A p \in syncs[k].updated :
                      /\ github[p].updated_at >= syncs[k].sync_start.value
                      /\ \/ p \in FetchedBy(k + 1)
                         \/ /\ p \in syncs[k + 1].updated
                            /\ github[p].updated_at >= syncs[k + 1].sync_start.value

\* A PR was reviewed after the first sync had processed it and before that
\* sync completed; the second sync, not forced, fetched it
C15_Witness ==
    /\ Len(syncs) = 2
    /\ NextAfterCompleted(1)
    /\ syncs[1].progress.prs_processed = 2
    /\ syncs[1].progress.reviews_processed = 0
    /\ \E p \in syncs[1].updated : p \in FetchedBy(2) /\ p \notin syncs[2].updated

\* A network call of the k-th call was answered 403 / 429 and the call
\* returned
RateLimitSignalled(k) ==
    /\ syncs[k].pc = "done"
    /\ syncs[k].result.value.cause = "RateLimited"

(* C16: a sync run in which a network call signalled rate limiting, be it
   the repository lookup, a page of the PR listing or a per-PR listing of
   reviews or review comments, has persisted last_synced_at = sync_start and
   returned Err(RateLimited(retry_after)) with the signalled retry-after. *)
C16_RateLimitedSurfaced ==
    \A k \in 1..Len(syncs) :
        RateLimitSignalled(k) =>
            /\ syncs[k].result.value.kind = "RateLimited"
            /\ syncs[k].result.value.retry_after \in {30, 60}
            /\ syncs[k].sync_start.some
            /\ k = Len(syncs) => last_synced_at = syncs[k].sync_start

\* The PRs the k-th call had fetched and not processed when it returned
Unprocessed(k) ==
    {i \in 1..Len(syncs[k].all_prs) : i > syncs[k].progress.prs_processed}

(* C17: after a sync run aborted by rate limiting, a PR that the run had
   fetched and not processed, and that has not been updated since, is in
   the PR listing of the next sync when that sync is not forced. *)
C17_ResumedByNext ==
    \A k \in 1..(Len(syncs) - 1) :
        (/\ ReturnedKind(k, "RateLimited")
         /\ ~syncs[k + 1].force
         /\ FetchReturned(k + 1))
            => \A i \in Unprocessed(k) :
                   github[syncs[k].all_prs[i].number].updated_at
                           = syncs[k].all_prs[i].updated_at
                       => syncs[k].all_prs[i].number \in FetchedBy(k + 1)

(* C18: a failure while processing one PR that is not a rate-limit signal
   does not abort the sync run: the run goes on to the remaining fetched
   PRs and, when nothing else fails, persists the cursor as sync_start and
   returns Ok with prs_processed equal to the number of PRs fetched. *)
C18_FailedPrSkipped ==
    \A k \in 1..Len(syncs) :
        (syncs[k].failed # {} /\ syncs[k].pc = "done") =>
            /\ syncs[k].result.value.kind = "Ok"
            /\ syncs[k].progress.prs_processed = Len(syncs[k].all_prs)
            /\ syncs[k].progress.prs_total = Len(syncs[k].all_prs)
            /\ k = Len(syncs) => last_synced_at = syncs[k].sync_start

\* The first of two fetched PRs failed, the reviews of the second were
\* stored, and the run returned
C18_Witness ==
    /\ syncs # <<>>
    /\ syncs[Len(syncs)].pc = "done"
    /\ syncs[Len(syncs)].failed = {1}
    /\ Len(syncs[Len(syncs)].all_prs) = 2
    /\ syncs[Len(syncs)].progress.reviews_processed > 0

\* What recalculate_all_xp makes of the tables as they are now
Recalculation ==
    recalculate_all_xp(
        users, xp_earned, list_all(reviews),
        session_awards(list_all(reviews), commits, review_comments, NoFault), NoFault)

\* The first sync of the repository completed normally, nothing failed in it
\* and no webhook was handled: the tables hold what that sync stored
SyncedFresh ==
    /\ Len(syncs) = 1
    /\ ReturnedKind(1, "Ok")
    /\ syncs[1].failed = {}
    /\ webhooks = <<>>

(* C19: the XP the sync awards online is the session score of the sessions
   of the stored reviews: after the first sync of a fresh repository, with
   no quality aggregates stored, every user's xp is the xp recalculate_all_xp
   computes from the same tables. *)
C19_OnlineIsRecalculated ==
    SyncedFresh =>
        \A u \in DOMAIN users : users[u].xp = Recalculation.users[u].xp

(* C20: a pull request's first_review_at is set at most once: no step of a
   sync run or of the webhook handler changes a first_review_at that holds
   a value, whatever the submitted_at of the reviews it stores. *)
C20_FirstWriteWins ==
    [][\A p \in DOMAIN prs :
           prs[p].first_review_at.some
               => prs'[p].first_review_at = prs[p].first_review_at]_vars

\* The webhook of a later review set first_review_at while a sync held the
\* PR's row without it; the sync then stored an earlier review of the PR and
\* first_review_at is still the later time
C20_Witness ==
    \E p \in DOMAIN prs :
        /\ prs[p].first_review_at.some
        /\ webhooks # <<>>
        /\ \E i \in 1..Len(reviews) :
               /\ reviews[i].pr_id = p
               /\ reviews[i].submitted_at < prs[p].first_review_at.value
        /\ \E k \in 1..Len(syncs) : syncs[k].progress.reviews_processed > 0

(* C21: every user's xp is non-negative, and no step of a sync run or of the
   webhook handler, its achievement check included, decreases a user's xp. *)
C21_XpNeverDecreases ==
    [][/\ \A u \in DOMAIN users' : users'[u].xp >= 0
       /\ \A u \in DOMAIN users : users[u].xp >= 0 /\ users'[u].xp >= users[u].xp]_vars

\* A reviewer was awarded by the webhook handler, which unlocked an
\* achievement, and awarded again by a sync
C21_Witness ==
    /\ achievements # <<>>
    /\ \E k \in 1..Len(syncs) : syncs[k].progress.reviews_processed > 0
    /\ \E u \in DOMAIN users : users[u].xp >= 60

-----------------------------------------------------------------------------
(* Claims about levels *)

(* C22: a user's persisted level is the level of the persisted xp, after
   every add_xp and after the reset of the recalculation: it is the L >= 1
   with (L - 1)^2 * 100 <= xp < L^2 * 100, that is floor(sqrt(xp / 100)) + 1. *)
C22_LevelOfXp ==
    \A u \in DOMAIN users :
        /\ users[u].level >= 1
        /\ (users[u].level - 1) * (users[u].level - 1) * 100 <= users[u].xp
        /\ users[u].xp < users[u].level * users[u].level * 100

\* add_xp took a user from level 1 to exactly the threshold of level 2
C22_Witness ==
    /\ call.fn = "add_xp"
    /\ call.was.level = 1
    /\ \E u \in DOMAIN users : users[u].xp = 100 /\ users[u].level = 2

(* C23: xp_for_level is the threshold inverse of calculate_level: for a
   level L from 1 to 20, calculate_level(xp_for_level(L)) = L and, for
   L >= 2, calculate_level(xp_for_level(L) - 1) = L - 1; calculate_level is
   1 for every xp <= 0. *)
C23_ThresholdInverse ==
    call.fn = "calculate_level" =>
        /\ call.xp <= 0 => call.level = 1
        /\ (call.of.fn = "xp_for_level" /\ call.of.level >= 1) =>
               /\ call.xp = call.of.xp => call.level = call.of.level
               /\ (call.xp = call.of.xp - 1 /\ call.of.level >= 2)
                      => call.level = call.of.level - 1

\* calculate_level of one less than the threshold of level 20
C23_Witness ==
    /\ call.fn = "calculate_level"
    /\ call.of.fn = "xp_for_level"
    /\ call.of.level = 20
    /\ call.xp = 36099
    /\ call.level = 19

-----------------------------------------------------------------------------
(* Claims about the pagination of fetch_prs_since *)

InLoop == call.fn = "fetch_prs_since" /\ call.pc = "loop"

\* The PRs of the listing that the page limit lets a call reach
Reachable(c) ==
    SubSeq(c.listing, 1,
           IF MaxPages * FetchPerPage < Len(c.listing) THEN MaxPages * FetchPerPage
                                                  ELSE Len(c.listing))

NoOlderThan(s, bound) ==
    LET Recent(pr) == pr.updated_at >= bound IN SelectSeq(s, Recent)

MaxOf(a, b) == IF a >= b THEN a ELSE b

(* C24: one call of fetch_prs_since fetches at most MaxPages pages (50 in the
   program); every iteration of its loop fetches one page and either returns
   or moves to the next page, so the loop ends within MaxPages iterations;
   and the iteration that fetched a page whose PRs are all older than the
   cutoff returns, so no page is fetched after such a page. *)
C24_PaginationBound ==
    [][/\ call'.fn = "fetch_prs_since" => call'.fetches <= MaxPages
       /\ (InLoop /\ call' # call) =>
              /\ call'.fetches = call.fetches + 1
              /\ call'.pc = "done" \/ call'.page = call.page + 1
              /\ call'.page <= MaxPages
              /\ (/\ call'.fetched # <<>>
                  /\ \A i \in 1..Len(call'.fetched) :
                         call'.fetched[i].updated_at < call.cutoff)
                     => call'.pc = "done"]_vars

\* The page limit ended a call while the listing had more PRs to serve
C24_Witness ==
    /\ call.fn = "fetch_prs_since"
    /\ call.pc = "done"
    /\ call.result = "Ok"
    /\ call.fetches = MaxPages
    /\ Len(call.all_prs) = MaxPages * FetchPerPage
    /\ Len(call.listing) > MaxPages * FetchPerPage

(* C25 as stated: the PRs a call returns are those not older than
   max(cursor, now - max_age_days), so that none of them was last updated
   more than max_age_days ago. *)
C25_CutoffIsMax ==
    (call.fn = "fetch_prs_since" /\ call.pc = "done" /\ call.result = "Ok") =>
        call.all_prs =
            NoOlderThan(Reachable(call),
                        IF call.since.some
                        THEN MaxOf(call.since.value, call.time - call.max_age_days * 86400)
                        ELSE call.time - call.max_age_days * 86400)

(* C25 as amended: the PRs a call returns are those not older than the cursor
   when a cursor is passed, and those not older than now - max_age_days when
   none is passed. *)
C25_CutoffIsCursorElseMaxAge ==
    (call.fn = "fetch_prs_since" /\ call.pc = "done" /\ call.result = "Ok") =>
        call.all_prs =
            NoOlderThan(Reachable(call),
                        IF call.since.some
                        THEN call.since.value
                        ELSE call.time - call.max_age_days * 86400)

\* A call with a cursor older than now - max_age_days returned a PR that was
\* last updated more than max_age_days ago
C25_Witness ==
    /\ call.fn = "fetch_prs_since"
    /\ call.pc = "done"
    /\ call.result = "Ok"
    /\ call.since.some
    /\ call.since.value < call.time - call.max_age_days * 86400
    /\ \E i \in 1..Len(call.all_prs) :
           call.all_prs[i].updated_at < call.time - call.max_age_days * 86400

(* C34: a call of fetch_prs_since that returns Ok returns only PRs that were
   updated at or after the cutoff, and every PR of the pages it fetched that
   was updated at or after the cutoff. *)
C34_ExactlyTheRecentOfFetchedPages ==
    (call.fn = "fetch_prs_since" /\ call.pc = "done" /\ call.result = "Ok") =>
        /\ \A i \in 1..Len(call.all_prs) : call.all_prs[i].updated_at >= call.cutoff
        /\ \A j \in 1..Len(call.listing) :
               (/\ j <= call.fetches * FetchPerPage
                /\ call.listing[j].updated_at >= call.cutoff)
                   => \E i \in 1..Len(call.all_prs) : call.all_prs[i] = call.listing[j]

\* The call stopped inside its second page: the page holds a PR updated
\* exactly at the cutoff, which is returned, and an older one, which is not
C34_Witness ==
    /\ call.fn = "fetch_prs_since"
    /\ call.pc = "done"
    /\ call.result = "Ok"
    /\ call.fetches = 2
    /\ Len(call.fetched) = 2
    /\ call.fetched[1].updated_at = call.cutoff
    /\ call.fetched[2].updated_at < call.cutoff
    /\ Len(call.all_prs) = 3

-----------------------------------------------------------------------------
(* Claims about the scheduler and the backfill route *)

Scheduled(k) == syncs[k].caller = "scheduler"

InProgress(k) == ~syncs[k].ended.some

(* C26: no two calls of backfill_repo for the same repository are in progress
   at the same time, whether made by the scheduler or by the backfill
   route. *)
C26_SingleWriterPerRepo ==
    \A j, k \in 1..Len(syncs) :
        (j # k /\ syncs[j].repo = syncs[k].repo) => ~(InProgress(j) /\ InProgress(k))

(* C27: the scheduler never overlaps itself: a call of backfill_repo made by
   the scheduler has returned before the scheduler makes the next one, within
   a tick and from one tick to the next, and the calls of a tick follow the
   order of the repositories. *)
C27_SchedulerSequential ==
    \A j, k \in 1..Len(syncs) :
        (j < k /\ Scheduled(j) /\ Scheduled(k)) =>
            /\ syncs[j].ended.some
            /\ syncs[j].ended.value <= syncs[k].started
            /\ syncs[j].tick <= syncs[k].tick
            /\ syncs[j].tick = syncs[k].tick => syncs[j].repo # syncs[k].repo

\* Two repositories synced in the first tick and one in the second
C27_Witness ==
    \E i, j, k \in 1..Len(syncs) :
        /\ i < j /\ j < k
        /\ Scheduled(i) /\ Scheduled(j) /\ Scheduled(k)
        /\ syncs[i].tick = 1 /\ syncs[j].tick = 1 /\ syncs[k].tick = 2

\* A call of the scheduler that follows, in the same tick, a call that
\* returned the rate-limited error was made retry_after or more after it
RetryAfterSlept ==
    \A j, k \in 1..Len(syncs) :
        (/\ j < k /\ Scheduled(j) /\ Scheduled(k)
         /\ syncs[j].tick = syncs[k].tick
         /\ syncs[j].result.some
         /\ syncs[j].result.value.kind = "RateLimited") =>
            syncs[k].started >= syncs[j].ended.value + syncs[j].result.value.retry_after

(* C28: when backfill_repo returns the rate-limited error to the scheduler,
   the scheduler sleeps for retry_after and then goes on with the next
   repository; no result of backfill_repo ends the tick early, so sync_all,
   once it has listed the repositories, returns only after it has called
   backfill_repo for each of them. *)
C28_ErrorsDoNotAbort ==
    [][/\ (sched.pc \in {"call", "await", "pause", "delay"} /\ sched'.pc = "tick") =>
              \A i \in 1..Len(sched.repos) :
                  \E k \in 1..Len(syncs) :
                      /\ Scheduled(k)
                      /\ syncs[k].tick = sched.tick
                      /\ syncs[k].repo = sched.repos[i]
       /\ sched'.pc # "off"
       /\ RetryAfterSlept']_vars

\* The first call of a tick returned the rate-limited error and the second
\* call of the tick was made
C28_Witness ==
    \E j, k \in 1..Len(syncs) :
        /\ j < k /\ Scheduled(j) /\ Scheduled(k)
        /\ syncs[j].tick = syncs[k].tick
        /\ syncs[j].result.some
        /\ syncs[j].result.value.kind = "RateLimited"

(* C29: the first tick of the ticker is skipped: the scheduler makes no call
   of backfill_repo before one interval has passed, its n-th round of calls
   is not made before n intervals have passed, and a round calls
   backfill_repo at most once for a repository. *)
C29_FirstTickSkipped ==
    /\ sched.pc # "start" => sched.tick * Interval <= now
    /\ \A k \in 1..Len(syncs) :
           Scheduled(k) =>
               /\ syncs[k].tick >= 1
               /\ syncs[k].started >= syncs[k].tick * Interval
               /\ \A j \in 1..Len(syncs) :
                      (j # k /\ Scheduled(j) /\ syncs[j].tick = syncs[k].tick)
                          => syncs[j].repo # syncs[k].repo

\* The first scheduled call, made when exactly one interval had passed
C29_Witness ==
    \E k \in 1..Len(syncs) :
        /\ Scheduled(k)
        /\ syncs[k].tick = 1
        /\ syncs[k].started = Interval

-----------------------------------------------------------------------------
(* Claims about achievements *)

OneRecordPerAchievement ==
    \A i, j \in 1..Len(achievements) :
        (/\ achievements[i].user_id = achievements[j].user_id
         /\ achievements[i].achievement_id = achievements[j].achievement_id) => i = j

\* Every achievement a call reports as newly unlocked is one whose record
\* that call created
ReportedOnlyByCreator ==
    \A k \in 1..Len(checks) : Range(checks[k].unlocked) \subseteq checks[k].created

(* C30: unlocking is idempotent: there is at most one record per user and
   achievement, a record once written is never changed, its unlocked_at
   included, and try_unlock returns true only to the call that created the
   record. *)
C30_UnlockIdempotent ==
    [][/\ OneRecordPerAchievement'
       /\ Len(achievements') >= Len(achievements)
       /\ \A i \in 1..Len(achievements) : achievements'[i] = achievements[i]
       /\ ReportedOnlyByCreator']_vars

-----------------------------------------------------------------------------
(* Claims about when the achievement checker runs *)

(* C31: once the operations that update XP have returned, every user whose XP
   they raised has been checked by the achievement checker, and the last such
   check counted the reviews the user has now. *)
C31_CheckedAfterUpdate ==
    ~Running =>
        \A u \in DOMAIN users :
            users[u].xp > 0 =>
                \E k \in 1..Len(checks) :
                    /\ checks[k].user_id = u
                    /\ checks[k].count = count_by_user(reviews, u, now - 3650 * 86400)

-----------------------------------------------------------------------------
(* Claims about metrics *)

(* C32: is_fast_review is true exactly when the review was submitted less
   than one hour after the PR was created. *)
C32_FastUnderOneHour ==
    call.fn = "is_fast_review" =>
        (call.fast <=> call.review_submitted - call.pr_created < 3600)

-----------------------------------------------------------------------------
(* Claims about forced syncs *)

(* C33: a forced sync passes no cursor to fetch_prs_since, so that its cutoff
   is sync_start - max_age_days, as is the cutoff of an unforced sync of a
   repository that has no cursor; a sync that completes, forced or not,
   leaves last_synced_at = its sync_start. *)
C33_ForceIgnoresCursor ==
    \A k \in 1..Len(syncs) :
        syncs[k].sync_start.some =>
            /\ syncs[k].force => ~syncs[k].last_synced.some
            /\ (syncs[k].force \/ ~syncs[k].last_synced.some) =>
                   syncs[k].cutoff = syncs[k].sync_start.value - MaxAgeDays * 86400
            /\ (k = Len(syncs) /\ ReturnedKind(k, "Ok")) =>
                   last_synced_at = syncs[k].sync_start

\* A forced sync of a repository whose cursor was a day later than the
\* cutoff completed, and fetched a PR that was last updated before the cursor
C33_Witness ==
    \E k \in 2..Len(syncs) :
        /\ k = Len(syncs)
        /\ syncs[k].force
        /\ ReturnedKind(k, "Ok")
        /\ ReturnedKind(k - 1, "Ok")
        /\ syncs[k].cutoff < syncs[k - 1].sync_start.value
        /\ \E i \in 1..Len(syncs[k].all_prs) :
               syncs[k].all_prs[i].updated_at < syncs[k - 1].sync_start.value

-----------------------------------------------------------------------------
(* Claims about the scores of the recalculation *)

\* The latest commit of the session's PR that is strictly earlier than the
\* session's started_at
PriorCommit(a) ==
    LET earlier == {i \in 1..Len(commits) :
                        /\ commits[i].pr_id = a.key[1]
                        /\ commits[i].committed_at < a.session.started_at}
    IN IF earlier = {} THEN None
       ELSE Some(commits[CHOOSE i \in earlier :
                             \A j \in earlier :
                                 commits[j].committed_at <= commits[i].committed_at
                        ].committed_at)

\* The rebuilt sessions of a user, scored with PriorCommit
ScoredWithPriorCommit(u) ==
    {[a EXCEPT !.xp = calculate_session_xp_with_quality(
                          a.session, PriorCommit(a),
                          quality_data_of(review_comments, a.key, NoFault))] :
        a \in SessionsOfUser(u)}

(* C35: after a run of recalculate_all with no failed statement, each user's
   xp is the sum of the scores of their sessions, each scored with the latest
   commit of the session's PR that is strictly earlier than its started_at as
   the prior commit time, and with none when the PR has no such commit. *)
C35_PriorCommitOfSamePr ==
    Recalculated =>
        \A u \in DOMAIN users : users[u].xp = SumXp(awarded(ScoredWithPriorCommit(u)))

\* A session that earned the fast-review bonus for a commit of its PR, while
\* the PR has an older commit and a commit at the session's started_at
C35_Witness ==
    /\ Recalculated
    /\ \E a \in RebuiltSessions :
           /\ PriorCommit(a).some
           /\ fast_review_xp(a.session, PriorCommit(a)) > 0
           /\ a.xp > 0
           /\ users[a.reviewer_id].xp >= a.xp
           /\ \E i, j \in 1..Len(commits) :
                  /\ commits[i].pr_id = a.key[1]
                  /\ commits[i].committed_at = a.session.started_at
                  /\ commits[j].pr_id = a.key[1]
                  /\ commits[j].committed_at < PriorCommit(a).value

\* What the tier weights and the category bonuses of an aggregate are worth
QualityPoints(q) ==
    q.by_tier[1] * LowXp + q.by_tier[2] * MediumXp + q.by_tier[3] * HighXp
    + q.by_category[1] * LogicXp + q.by_category[2] * StructuralXp

\* The part of a rebuilt session's score that comes from the tier weights and
\* the category bonuses of its group's aggregate
QualityShare(a) ==
    LET q == quality_data_of(review_comments, a.key, NoFault).value
    IN a.xp - calculate_session_xp_with_quality(
                  a.session, PriorCommit(a),
                  Some(CommentQualityData(<<0, 0, 0>>, <<0, 0, 0>>, q.categorized_count)))

(* C36: after a run of recalculate_all with no failed statement, the tier
   weights and category bonuses of a (PR, reviewer) group's aggregate are in
   the scores of the group's sessions once in total, however many sessions
   the group's events make. *)
C36_QualityCountedOncePerGroup ==
    Recalculated =>
        \A a \in RebuiltSessions :
            SumXp({[b EXCEPT !.xp = QualityShare(b)] : b \in {c \in RebuiltSessions : c.key = a.key}})
                <= QualityPoints(quality_data_of(review_comments, a.key, NoFault).value)

-----------------------------------------------------------------------------
(* Claims about the order of the inputs of the grouping *)

\* The orders a list of n elements is tried in: every permutation of a list
\* of at most max elements, the reversal and the rotations of a longer one
Rearrangements(n, max) ==
    IF n <= max
    THEN {p \in [1..n -> 1..n] : \A i, j \in 1..n : p[i] = p[j] => i = j}
    ELSE {[i \in 1..n |-> n + 1 - i]}
         \cup {[i \in 1..n |-> ((i + k - 1) % n) + 1] : k \in 0..(n - 1)}

Rearranged(s, p) == [i \in 1..Len(s) |-> s[p[i]]]

\* Per session: the set of its events, its bounds and its comment total
SessionsView(ss) ==
    [i \in 1..Len(ss) |->
        [events |-> Range(ss[i].reviews),
         started_at |-> ss[i].started_at,
         ended_at |-> ss[i].ended_at,
         total_comments |-> ss[i].total_comments]]

\* The lists as list_all returns them: oldest first, ties in any order
InTimeOrder ==
    /\ \A i, j \in 1..Len(reviews) :
           i < j => reviews[i].submitted_at <= reviews[j].submitted_at
    /\ \A i, j \in 1..Len(commits) :
           i < j => commits[i].committed_at <= commits[j].committed_at

(* C38: for every permutation of the review list and of the commit list,
   group_reviews_into_sessions returns as many sessions as for the lists in
   time order, each with the same set of events, the same started_at,
   ended_at and total_comments. Every list is a permutation of a list in
   time order, so any two orders of the same lists give the same sessions. *)
C38_OrderIndependent ==
    pc = "grouped" /\ InTimeOrder =>
        \A p \in Rearrangements(Len(reviews), MaxReviews),
           q \in Rearrangements(Len(commits), MaxCommits) :
            SessionsView(group_reviews_into_sessions(Rearranged(reviews, p),
                                                     Rearranged(commits, q)))
                = SessionsView(sessions)

\* Lists in time order with two events at the same time, a later event and
\* two commits at different times, grouped into more than one session: the
\* permutations put the later event first and the later commit first.
C38_Witness ==
    /\ pc = "grouped"
    /\ InTimeOrder
    /\ Len(sessions) >= 2
    /\ \E i, j \in 1..Len(reviews) :
           i < j /\ reviews[i].submitted_at = reviews[j].submitted_at
    /\ \E i, j \in 1..Len(reviews) :
           /\ reviews[i].submitted_at < reviews[j].submitted_at
           /\ \E p \in Rearrangements(Len(reviews), MaxReviews) : p[1] = j
    /\ \E i, j \in 1..Len(commits) :
           /\ commits[i].committed_at < commits[j].committed_at
           /\ \E q \in Rearrangements(Len(commits), MaxCommits) : q[1] = j

-----------------------------------------------------------------------------
(* Claims about the cursor under concurrent runs *)

(* C39: no step moves a repository's last_synced_at backwards: whenever a
   run persists the cursor, completed or stopped by the rate limit, scheduled
   or triggered by hand, the new value is at or after the previous one. *)
C39_CursorNeverMovesBack ==
    [][\A r \in DOMAIN last_synced_at :
           last_synced_at[r].some =>
               /\ last_synced_at'[r].some
               /\ last_synced_at'[r].value >= last_synced_at[r].value]_vars

=============================================================================
